---- MODULE Spec2Model ----
(***************************************************************************)
(* A model of the transfer core of flick: the TransferQueue task registry  *)
(* (domain/transfer.rs), the dual-transport file and directory copy        *)
(* (infra/ssh/transfer.rs) and the worker threads, deferred progress       *)
(* closures and UI callbacks that drive them (ui_bridge/transfer_manager). *)
(*                                                                         *)
(* Three specifications share the variables:                               *)
(*   QSpec  the queue driven call by call with arbitrary arguments;        *)
(*   XSpec  one upload/download/upload_dir/download_dir call, unfolded     *)
(*          event by event;                                                *)
(*   Spec   the application: UI thread, event loop, worker threads, locks. *)
(***************************************************************************)
EXTENDS Integers, Sequences, FiniteSets, TLC

VARIABLES
    tasks,        \* TransferQueue.tasks: Vec<TransferTask>
    next_id,      \* TransferQueue.next_id
    last,         \* history: the queue call made by the last step
    issued,       \* history: the ids returned by enqueue, in call order
    clock,        \* the monotonic clock that Instant::now() reads
    queueLock,    \* holder of the Mutex<TransferQueue>: Free, Ui or Worker(w)
    rsLock,       \* holder of the Mutex<RemoteState>
    remote_state, \* RemoteState: uploader (Some/None) and current_path
    localDirs,    \* the local paths that are directories (Path::is_dir)
    eventLoop,    \* closures queued by slint::invoke_from_event_loop, FIFO
    workers,      \* the threads spawned by the transfer callbacks, in spawn order
    uiPc,         \* position of the UI thread: "idle" or inside refresh_remote_dir
    xcall,        \* XSpec: the call under way (operation and file tree)
    xlog,         \* XSpec: the events the call has produced so far
    xrest,        \* XSpec: the events the call has still to produce
    xres,         \* XSpec: the call's result once it has returned
    ccall,        \* CSpec: the connect under way (ServerConfig and environment)
    csteps,       \* CSpec: the calls connect has made so far, with their outcome
    logs,         \* CSpec: connect_with_log's transcript (the String logs)
    crest,        \* CSpec: what connect has still to do
    cres,         \* CSpec: connect's result once it has returned
    timerPc,      \* the presentation timer's position inside its callback
    timer_tasks,  \* the timer's local `tasks`: the Vec snapshot() returned
    transfer_tasks, \* the UI property the timer sets (the rendered list)
    sh,           \* ShSpec: a remote path and the command text built from it
    lk            \* LockSpec: the three mutexes' holders and each thread's position

vars == <<tasks, next_id, last, issued, clock, queueLock, rsLock, remote_state,
          localDirs, eventLoop, workers, uiPc, xcall, xlog, xrest, xres,
          ccall, csteps, logs, crest, cres, timerPc, timer_tasks, transfer_tasks, sh, lk>>

queueVars == <<tasks, next_id, last, issued, clock>>
appVars   == <<queueLock, rsLock, remote_state, localDirs, eventLoop, workers, uiPc>>
xVars     == <<xcall, xlog, xrest, xres>>
connVars  == <<ccall, csteps, logs, crest, cres>>
timerVars == <<timerPc, timer_tasks, transfer_tasks>>

----------------------------------------------------------------------------
(* Bounds of the model. *)

MaxEnqueue == 2     \* QSpec: enqueue calls per behaviour
MaxTasks   == 1     \* Spec: tasks enqueued per behaviour
MaxRetries == 1     \* Spec: retry callbacks that reset a task, per behaviour

----------------------------------------------------------------------------
(* Progress fractions.  The code's f32 in [0,1] is kept as a fixed-point   *)
(* number of One-ths; a / b on f32 becomes Frac(a, b).                     *)

One   == 100
Tenth == One \div 10
(* The ratio taken the wrong way round. *)
Frac_inverted(a, b) == (b * One) \div a
Frac(a, b) == (a * One) \div b

----------------------------------------------------------------------------
(* TransferStatus and TransferTask.  A text (an error message) is the set  *)
(* of failure causes it spells out.                                        *)

NoText == {}
Pending    == [kind |-> "Pending",    reason |-> NoText]
InProgress == [kind |-> "InProgress", reason |-> NoText]
Completed  == [kind |-> "Completed",  reason |-> NoText]
Failed(reason) == [kind |-> "Failed", reason |-> reason]

None == -1          \* Option::None of started_at
Instant_now == 0    \* Instant::now() in Spec, which keeps one instant

IndexOf(q, id) ==
    IF \E i \in 1..Len(q) : q[i].id = id
    THEN CHOOSE i \in 1..Len(q) : q[i].id = id /\ \A j \in 1..(i-1) : q[j].id # id
    ELSE 0

HasTask(q, id) == IndexOf(q, id) # 0
TaskOf(q, id) == q[IndexOf(q, id)]

(* TransferQueue::enqueue: the id handed out and the pushed task. *)
enqueue_id_from_len(nid, q) == Len(q)

enqueue_id(nid, q) == nid

enqueue_at_front(q, nid, direction, local_path, remote_path, file_name, size) ==
    <<[id |-> enqueue_id(nid, q), direction |-> direction,
       local_path |-> local_path, remote_path |-> remote_path,
       file_name |-> file_name, size |-> size,
       progress |-> 0, status |-> Pending, started_at |-> None]>> \o q

enqueue(q, nid, direction, local_path, remote_path, file_name, size) ==
    Append(q, [id |-> enqueue_id(nid, q), direction |-> direction,
               local_path |-> local_path, remote_path |-> remote_path,
               file_name |-> file_name, size |-> size,
               progress |-> 0, status |-> Pending, started_at |-> None])

(* TransferQueue::update_progress *)
(* now is what Instant::now() returns during the call *)
update_progress_restamps(q, id, progress, now) ==
    IF HasTask(q, id)
    THEN [q EXCEPT ![IndexOf(q, id)] =
            [@ EXCEPT !.started_at = now, !.progress = progress, !.status = InProgress]]
    ELSE q

update_progress(q, id, progress, now) ==
    IF HasTask(q, id)
    THEN [q EXCEPT ![IndexOf(q, id)] =
            [@ EXCEPT !.started_at = IF @ = None THEN now ELSE @,
                      !.progress = progress,
                      !.status = InProgress]]
    ELSE q

(* TransferQueue::mark_completed *)
mark_completed_keeps_progress(q, id) ==
    IF HasTask(q, id)
    THEN [q EXCEPT ![IndexOf(q, id)] = [@ EXCEPT !.status = Completed]]
    ELSE q

mark_completed(q, id) ==
    IF HasTask(q, id)
    THEN [q EXCEPT ![IndexOf(q, id)] =
            [@ EXCEPT !.progress = One, !.status = Completed]]
    ELSE q

(* TransferQueue::mark_failed *)
mark_failed_resets_progress(q, id, error) ==
    IF HasTask(q, id)
    THEN [q EXCEPT ![IndexOf(q, id)] = [@ EXCEPT !.status = Failed(error), !.progress = 0]]
    ELSE q

mark_failed(q, id, error) ==
    IF HasTask(q, id)
    THEN [q EXCEPT ![IndexOf(q, id)] = [@ EXCEPT !.status = Failed(error)]]
    ELSE q

(* TransferQueue::retry: the returned bool and the queue afterwards. *)
retry_resets_unfinished(status) == status.kind \in {"Failed", "InProgress"}

retry_resets(status) == status.kind = "Failed"

(* retry returning true for a task in any status *)
retry_ok_any_status(q, id) == HasTask(q, id)

retry_ok(q, id) == HasTask(q, id) /\ retry_resets(TaskOf(q, id).status)

(* retry resetting every failed task of the queue along with task id *)
retry_every_failed(q, id) ==
    IF retry_ok(q, id)
    THEN [j \in 1..Len(q) |->
            IF retry_resets(q[j].status)
            THEN [q[j] EXCEPT !.status = Pending, !.progress = 0, !.started_at = None]
            ELSE q[j]]
    ELSE q

retry(q, id) ==
    IF retry_ok(q, id)
    THEN [q EXCEPT ![IndexOf(q, id)] =
            [@ EXCEPT !.status = Pending, !.progress = 0, !.started_at = None]]
    ELSE q

(* TransferQueue::clear_completed *)
NotFinished(t) == t.status.kind \notin {"Completed", "Failed"}
NotCompleted(t) == t.status # Completed

clear_completed(q) == SelectSeq(q, NotCompleted)

(* TransferQueue::snapshot and get_task *)
snapshot(q) == q

get_task(q, id) == IF HasTask(q, id) THEN <<TaskOf(q, id)>> ELSE <<>>

CallWith(op, id, ok, arg) == [op |-> op, id |-> id, ok |-> ok, arg |-> arg]
Call(op, id, ok) == CallWith(op, id, ok, <<>>)
NoCall == Call("none", None, FALSE)

(* The parts of the state a specification does not use stay as built. *)
IdleQueue == tasks = <<>> /\ next_id = 0 /\ last = NoCall /\ issued = <<>> /\ clock = 0

Free      == [who |-> "none", w |-> 0]
Ui        == [who |-> "ui", w |-> 0]
Worker(w) == [who |-> "worker", w |-> w]

IdleApp ==
    /\ queueLock = Free /\ rsLock = Free
    /\ remote_state = [uploader |-> FALSE, current_path |-> "/"]
    /\ localDirs = {} /\ eventLoop = <<>> /\ workers = <<>> /\ uiPc = "idle"

IdleConn ==
    /\ ccall = [op |-> "none"] /\ csteps = <<>> /\ logs = <<>> /\ crest = <<>>
    /\ cres = [state |-> "none"]

IdleSh == sh = [state |-> "none"]
IdleLk == lk = [state |-> "none"]

IdleTimer == timerPc = "idle" /\ timer_tasks = <<>> /\ transfer_tasks = <<>>

IdleX == xcall = [op |-> "none"] /\ xlog = <<>> /\ xrest = <<>> /\ xres = [state |-> "none", res |-> [ok |-> TRUE, err |-> <<>>]]

----------------------------------------------------------------------------
(* The transfer executor (infra/ssh/transfer.rs).  A call is unfolded into *)
(* the sequence of events it produces and its Result.  Events:             *)
(*   cb   the progress sink invoked with value v                           *)
(*   io   a blocking step: external process, network or disk I/O           *)
(*   try  a transport attempt begins   (n = "scp" or "sftp")              *)
(*   ret  a transport attempt returns  (v = 1 for Ok, 0 for Err)           *)
(* p is the path of the file or directory, as the names below the root.    *)
(* What the environment does is read from the node: f.scp and f.sftp name  *)
(* the step of each transport that fails ("ok": none), f.size the size     *)
(* found at the start, f.read the chunks the read loop really gets.        *)
(* An anyhow::Error is its chain of messages, outermost first.             *)

Ev(t, n, v, p) == [t |-> t, n |-> n, v |-> v, p |-> p]
Cb(v)      == Ev("cb", "progress", v, <<>>)
Io(n, p)   == Ev("io", n, 0, p)
Try(n, p)  == Ev("try", n, 0, p)
Ret(n, ok, p) == Ev("ret", n, IF ok THEN 1 ELSE 0, p)
(* std::fs::create_dir_all on the local root of a directory download;      *)
(* v = 1 when it succeeds and the path is a directory from then on.        *)
MkLocal(ok, p) == Ev("io", "create_dir_all", IF ok THEN 1 ELSE 0, p)

Ok == [ok |-> TRUE, err |-> <<>>]
Err(chain) == [ok |-> FALSE, err |-> chain]
Out(ev, res) == [ev |-> ev, res |-> res]

(* format!("{}", e): anyhow prints the outermost message only. *)
Display(r) == r.err[1]
(* format!("{:#}", e) would print the whole chain. *)
Chain(r) == UNION {r.err[i] : i \in 1..Len(r.err)}
(* Result::with_context: wraps an Err in one more message. *)
with_context(r, text) == IF r.ok THEN r ELSE Err(<<text>> \o r.err)

Attempt(n, p, o) == Out(<<Try(n, p)>> \o o.ev \o <<Ret(n, o.res.ok, p)>>, o.res)

(* ensure_scp_available and upload_via_scp *)
upload_via_scp(f, p) ==
    LET e0 == <<Cb(0), Io("scp -V", p)>>
        e1 == e0 \o <<Cb(Tenth), Io("scp", p)>>
    IN  IF f.scp = "missing"
        THEN Out(e0, Err(<<{"scp: command not found"}>>))
        ELSE IF f.scp = "spawn_fail"
        THEN Out(e1, Err(<<{"scp: cannot execute"}, {"scp: os error"}>>))
        ELSE IF f.scp = "ok"
        THEN Out(e1 \o <<Cb(One)>>, Ok)
        ELSE Out(e1, Err(<<{"scp: upload failed", "scp: stderr"}>>))

(* download_via_scp *)
download_via_scp(f, p) ==
    LET e0 == <<Cb(0), Io("scp -V", p)>>
        e1 == e0 \o <<Io("create_dir_all parent", p)>>
        e2 == e1 \o <<Cb(Tenth), Io("scp", p)>>
    IN  IF f.scp = "missing"
        THEN Out(e0, Err(<<{"scp: command not found"}>>))
        ELSE IF f.scp = "mkdir_fail"
        THEN Out(e1, Err(<<{"scp: cannot create local dir"}, {"scp: os error"}>>))
        ELSE IF f.scp = "spawn_fail"
        THEN Out(e2, Err(<<{"scp: cannot execute"}, {"scp: os error"}>>))
        ELSE IF f.scp = "ok"
        THEN Out(e2 \o <<Cb(One)>>, Ok)
        ELSE Out(e2, Err(<<{"scp: download failed", "scp: stderr"}>>))

(* The read/write loop of upload_via_sftp and download_via_sftp, k chunks  *)
(* done so far, and the callback(1.0) after it.                            *)
RECURSIVE copy_loop(_, _, _)
(* The loop without the callback(1.0) that follows it. *)
copy_loop_no_final(k, f, p) ==
    IF f.sftp = "io_fail" /\ f.fail_at = k + 1
    THEN Out(<<Io("chunk", p)>>, Err(<<{"sftp: io error"}>>))
    ELSE IF k >= f.read
    THEN Out(<<Io("eof", p)>>, Ok)
    ELSE LET rest == copy_loop(k + 1, f, p)
         IN  Out(<<Io("chunk", p)>>
                   \o (IF f.size > 0 THEN <<Cb(Frac(k + 1, f.size))>> ELSE <<>>)
                   \o rest.ev,
                 rest.res)

(* the loop reporting before it adds the chunk to `transferred` *)
copy_loop_reports_before(k, f, p) ==
    IF f.sftp = "io_fail" /\ f.fail_at = k + 1
    THEN Out(<<Io("chunk", p)>>, Err(<<{"sftp: io error"}>>))
    ELSE IF k >= f.read
    THEN Out(<<Io("eof", p), Cb(One)>>, Ok)
    ELSE LET rest == copy_loop(k + 1, f, p)
         IN  Out(<<Io("chunk", p)>>
                   \o (IF f.size > 0 THEN <<Cb(Frac(k, f.size))>> ELSE <<>>)
                   \o rest.ev,
                 rest.res)

copy_loop(k, f, p) ==
    IF f.sftp = "io_fail" /\ f.fail_at = k + 1
    THEN Out(<<Io("chunk", p)>>, Err(<<{"sftp: io error"}>>))
    ELSE IF k >= f.read
    THEN Out(<<Io("eof", p), Cb(One)>>, Ok)
    ELSE LET rest == copy_loop(k + 1, f, p)
         IN  Out(<<Io("chunk", p)>>
                   \o (IF f.size > 0 THEN <<Cb(Frac(k + 1, f.size))>> ELSE <<>>)
                   \o rest.ev,
                 rest.res)

(* upload_via_sftp.  A NativeSsh handle holds a session that never         *)
(* authenticated, so its first channel request fails.                      *)
upload_via_sftp(f, p, mode) ==
    IF f.sftp = "open_fail"
    THEN Out(<<Io("open local", p)>>, Err(<<{"sftp: cannot open local file"}, {"sftp: os error"}>>))
    ELSE IF f.sftp = "metadata_fail"
    THEN Out(<<Io("open local", p)>>, Err(<<{"sftp: os error"}>>))
    ELSE IF mode = "NativeSsh" \/ f.sftp = "channel_fail"
    THEN Out(<<Io("open local", p), Io("channel", p)>>, Err(<<{"sftp: ssh error"}>>))
    ELSE IF f.sftp = "session_fail"
    THEN Out(<<Io("open local", p), Io("mkdir -p parent", p), Io("sftp", p)>>,
             Err(<<{"sftp: no sftp session"}, {"sftp: ssh error"}>>))
    ELSE IF f.sftp = "create_fail"
    THEN Out(<<Io("open local", p), Io("mkdir -p parent", p), Io("sftp", p), Io("create", p)>>,
             Err(<<{"sftp: cannot create remote file"}, {"sftp: ssh error"}>>))
    ELSE LET c == copy_loop(0, f, p)
         IN  Out(<<Io("open local", p), Io("mkdir -p parent", p), Io("sftp", p), Io("create", p)>>
                   \o c.ev, c.res)

(* download_via_sftp *)
download_via_sftp(f, p, mode) ==
    IF mode = "NativeSsh" \/ f.sftp = "session_fail"
    THEN Out(<<Io("sftp", p)>>, Err(<<{"sftp: no sftp session"}, {"sftp: ssh error"}>>))
    ELSE IF f.sftp = "open_fail"
    THEN Out(<<Io("sftp", p), Io("open remote", p)>>,
             Err(<<{"sftp: cannot open remote file"}, {"sftp: ssh error"}>>))
    ELSE IF f.sftp = "stat_fail"
    THEN Out(<<Io("sftp", p), Io("open remote", p), Io("stat", p)>>, Err(<<{"sftp: ssh error"}>>))
    ELSE IF f.sftp = "mkdir_fail"
    THEN Out(<<Io("sftp", p), Io("open remote", p), Io("stat", p), Io("create_dir_all parent", p)>>,
             Err(<<{"sftp: cannot create local dir"}, {"sftp: os error"}>>))
    ELSE IF f.sftp = "create_fail"
    THEN Out(<<Io("sftp", p), Io("open remote", p), Io("stat", p), Io("create_dir_all parent", p),
               Io("create local", p)>>,
             Err(<<{"sftp: cannot create local file"}, {"sftp: os error"}>>))
    ELSE LET c == copy_loop(0, f, p)
         IN  Out(<<Io("sftp", p), Io("open remote", p), Io("stat", p), Io("create_dir_all parent", p),
                   Io("create local", p)>> \o c.ev, c.res)

(* The message FileTransfer::upload/download put around the native error. *)
BothFailed(scp_res) == {"SCP and SFTP both failed"} \cup Display(scp_res)

(* FileTransfer::upload *)
upload_no_fallback(f, p, mode) == Attempt("scp", p, upload_via_scp(f, p))

upload_native_first(f, p, mode) ==
    LET n == Attempt("sftp", p, upload_via_sftp(f, p, mode))
    IN  IF n.res.ok THEN n
        ELSE LET s == Attempt("scp", p, upload_via_scp(f, p))
             IN  Out(n.ev \o s.ev, with_context(s.res, BothFailed(n.res)))

upload(f, p, mode) ==
    LET s == Attempt("scp", p, upload_via_scp(f, p))
    IN  IF s.res.ok THEN s
        ELSE LET n == Attempt("sftp", p, upload_via_sftp(f, p, mode))
             IN  Out(s.ev \o n.ev, with_context(n.res, BothFailed(s.res)))

(* FileTransfer::download *)
download(f, p, mode) ==
    LET s == Attempt("scp", p, download_via_scp(f, p))
    IN  IF s.res.ok THEN s
        ELSE LET n == Attempt("sftp", p, download_via_sftp(f, p, mode))
             IN  Out(s.ev \o n.ev, with_context(n.res, BothFailed(s.res)))

(* SshUploader::remote_mkdir: only the channel request can fail; the       *)
(* outcome of the mkdir command itself is dropped.                         *)
remote_mkdir_skipped(d, p, mode) == Out(<<>>, Ok)

remote_mkdir(d, p, mode) ==
    IF mode = "LibSsh2" /\ d.mk = "fail"
    THEN Out(<<Io("channel", p)>>, Err(<<{"cannot create channel"}>>))
    ELSE Out(<<Io("remote_mkdir", p)>>, Ok)

(* upload_dir_recursive and its loop over the entries, from entry i on. *)
RECURSIVE upload_dir_recursive(_, _, _), upload_entries(_, _, _, _)
upload_dir_recursive(d, p, mode) ==
    LET mk == remote_mkdir(d, p, mode)
    IN  IF ~mk.res.ok THEN mk
        ELSE IF d.ls # "ok"
        THEN Out(mk.ev \o <<Io("read_dir", p)>>,
                 Err(<<{"cannot read local dir"}, {"os error"}>>))
        ELSE LET c == upload_entries(d.kids, 1, p, mode)
             IN  Out(mk.ev \o <<Io("read_dir", p)>> \o c.ev, c.res)

(* the loop going on to the next entry after a child has failed, and      *)
(* returning the first error at its end                                    *)
upload_entries_keeps_going(entries, i, p, mode) ==
    IF i > Len(entries) THEN Out(<<>>, Ok)
    ELSE LET e == entries[i]
             total == Len(entries)
             r == IF e.is_dir
                  THEN upload_dir_recursive(e, Append(p, e.name), mode)
                  ELSE upload(e, Append(p, e.name), mode)
             rest == upload_entries(entries, i + 1, p, mode)
         IN  Out(r.ev \o (IF r.res.ok /\ total > 0 THEN <<Cb(Frac(i, total))>> ELSE <<>>)
                      \o rest.ev,
                 IF r.res.ok THEN rest.res ELSE r.res)

(* the loop reporting i / total with the index that starts at 0 *)
upload_entries_zero_based(entries, i, p, mode) ==
    IF i > Len(entries) THEN Out(<<>>, Ok)
    ELSE LET e == entries[i]
             total == Len(entries)
             r == IF e.is_dir
                  THEN upload_dir_recursive(e, Append(p, e.name), mode)
                  ELSE upload(e, Append(p, e.name), mode)
         IN  IF ~r.res.ok THEN r
             ELSE LET rest == upload_entries(entries, i + 1, p, mode)
                  IN  Out(r.ev \o (IF total > 0 THEN <<Cb(Frac(i - 1, total))>> ELSE <<>>)
                               \o rest.ev,
                          rest.res)

upload_entries(entries, i, p, mode) ==
    IF i > Len(entries) THEN Out(<<>>, Ok)
    ELSE LET e == entries[i]
             total == Len(entries)
             r == IF e.is_dir
                  THEN upload_dir_recursive(e, Append(p, e.name), mode)
                  ELSE upload(e, Append(p, e.name), mode)
         IN  IF ~r.res.ok THEN r
             ELSE LET rest == upload_entries(entries, i + 1, p, mode)
                  IN  Out(r.ev \o (IF total > 0 THEN <<Cb(Frac(i, total))>> ELSE <<>>)
                               \o rest.ev,
                          rest.res)

(* download_dir_recursive and its loop over the listing. *)
RECURSIVE download_dir_recursive(_, _, _), download_entries(_, _, _, _)
download_dir_recursive(d, p, mode) ==
    IF d.mk = "fail"
    THEN Out(<<MkLocal(FALSE, p)>>,
             Err(<<{"cannot create local dir"}, {"os error"}>>))
    ELSE IF d.ls # "ok"
    THEN Out(<<MkLocal(TRUE, p), Io("list_dir", p)>>,
             Err(<<{"cannot list remote dir"}>>))
    ELSE LET c == download_entries(d.kids, 1, p, mode)
         IN  Out(<<MkLocal(TRUE, p), Io("list_dir", p)>>
                   \o c.ev, c.res)

download_entries(entries, i, p, mode) ==
    IF i > Len(entries) THEN Out(<<>>, Ok)
    ELSE LET e == entries[i]
             total == Len(entries)
             r == IF e.is_dir
                  THEN download_dir_recursive(e, Append(p, e.name), mode)
                  ELSE download(e, Append(p, e.name), mode)
         IN  IF ~r.res.ok THEN r
             ELSE LET rest == download_entries(entries, i + 1, p, mode)
                  IN  Out(r.ev \o (IF total > 0 THEN <<Cb(Frac(i, total))>> ELSE <<>>)
                               \o rest.ev,
                          rest.res)

(* FileTransfer::upload_dir, FileTransfer::download_dir *)
upload_dir(d, p, mode) == upload_dir_recursive(d, p, mode)
download_dir(d, p, mode) == download_dir_recursive(d, p, mode)

(* One call of the FileTransfer trait. *)
Run(op, node, mode) ==
    IF op = "upload" THEN upload(node, <<>>, mode)
    ELSE IF op = "download" THEN download(node, <<>>, mode)
    ELSE IF op = "upload_dir" THEN upload_dir(node, <<>>, mode)
    ELSE download_dir(node, <<>>, mode)

----------------------------------------------------------------------------
(* XSpec: one call of the FileTransfer trait on one file or tree, for      *)
(* every behaviour of the environment within the bounds.                   *)

MaxChunks  == 2     \* largest file of the exhaustive set, in read-buffer chunks
MaxEntries == 2     \* most entries of one directory
BigFile    == 11    \* one file of more than ten chunks: a first chunk below 0.1

File(name, size, read, scp, sftp, fail_at) ==
    [name |-> name, is_dir |-> FALSE, size |-> size, read |-> read,
     scp |-> scp, sftp |-> sftp, fail_at |-> fail_at,
     mk |-> "ok", ls |-> "ok", kids |-> <<>>]

Dir(name, mk, ls, kids) ==
    [name |-> name, is_dir |-> TRUE, size |-> 0, read |-> 0,
     scp |-> "ok", sftp |-> "ok", fail_at |-> 0,
     mk |-> mk, ls |-> ls, kids |-> kids]

Modes == {"LibSsh2", "NativeSsh"}
ScpFailures(op) ==
    {"missing", "spawn_fail", "exit_nonzero"} \cup (IF op = "download" THEN {"mkdir_fail"} ELSE {})
SftpFailures(op) ==
    IF op = "upload"
    THEN {"open_fail", "metadata_fail", "channel_fail", "session_fail", "create_fail"}
    ELSE {"session_fail", "open_fail", "stat_fail", "mkdir_fail", "create_fail"}

XSizes == (0..MaxChunks) \cup {BigFile}

(* The files of a single-file call: every size, every failure of either    *)
(* transport, an I/O error at every chunk, and a file that grows or        *)
(* shrinks by one chunk while it is read.                                  *)
XFiles(op) ==
    {File("f", sz, sz, scp, sftp, 0) :
        sz \in XSizes, scp \in ScpFailures(op) \cup {"ok"}, sftp \in SftpFailures(op) \cup {"ok"}}
    \cup {File("f", sz, sz, scp, "io_fail", k) :
            sz \in 0..MaxChunks, scp \in {"exit_nonzero"}, k \in 1..(MaxChunks + 1)}
    \cup {File("f", sz, rd, "exit_nonzero", "ok", 0) :
            sz \in 0..MaxChunks, rd \in 0..(MaxChunks + 1)}

(* The entries of a directory: files that succeed at once, after the       *)
(* fallback, or not at all, and sub-directories of such files.             *)
XLeaves(op) ==
    {File("f", 2, 2, scp, sftp, 0) :
        scp \in {"ok", "exit_nonzero"}, sftp \in {"ok", "session_fail"}}

(* The entries of one directory carry distinct names. *)
NameAt(i) == IF i = 1 THEN "a" ELSE IF i = 2 THEN "b" ELSE IF i = 3 THEN "c" ELSE "d"
SeqsUpTo(S, n) ==
    UNION {{[i \in 1..k |-> [q[i] EXCEPT !.name = NameAt(i)]] : q \in [1..k -> S]} : k \in 0..n}

XSubDirs(op) ==
    {Dir("s", "ok", "ok", kids) : kids \in SeqsUpTo(XLeaves(op), 1)}
    \cup {Dir("s", "fail", "ok", <<>>), Dir("s", "ok", "fail", <<>>)}

XDirs(op) ==
    {Dir("d", "ok", "ok", kids) : kids \in SeqsUpTo(XLeaves(op) \cup XSubDirs(op), MaxEntries)}
    \cup {Dir("d", "fail", "ok", <<>>), Dir("d", "ok", "fail", <<>>)}

IsFileOp(op) == op \in {"upload", "download"}

XCalls ==
    {[op |-> op, node |-> n, mode |-> m] :
        op \in {"upload", "download"}, n \in XFiles("upload") \cup XFiles("download"), m \in Modes}
    \cup {[op |-> op, node |-> n, mode |-> m] :
        op \in {"upload_dir", "download_dir"}, n \in XDirs("upload"), m \in Modes}

XCallOk(c) == IsFileOp(c.op) => c.node \in XFiles(c.op)

XInit ==
    /\ xcall \in {c \in XCalls : XCallOk(c)}
    /\ xlog = <<>>
    /\ xrest = Run(xcall.op, xcall.node, xcall.mode).ev
    /\ xres = [state |-> "running", res |-> Ok]
    /\ IdleQueue /\ IdleApp /\ IdleConn /\ IdleTimer /\ IdleSh /\ IdleLk

(* The call performs its next step. *)
XStep ==
    /\ xres.state = "running" /\ xrest # <<>>
    /\ xlog' = Append(xlog, Head(xrest))
    /\ xrest' = Tail(xrest)
    /\ UNCHANGED <<xcall, xres, queueVars, appVars, connVars, timerVars, sh, lk>>

(* The call returns its Result. *)
XReturn ==
    /\ xres.state = "running" /\ xrest = <<>>
    /\ xres' = [state |-> "returned", res |-> Run(xcall.op, xcall.node, xcall.mode).res]
    /\ UNCHANGED <<xcall, xlog, xrest, queueVars, appVars, connVars, timerVars, sh, lk>>

XNext ==
    \/ XStep
    \/ XReturn

XSpec == XInit /\ [][XNext]_vars

----------------------------------------------------------------------------
(* SshUploader::connect_with_log (infra/ssh/client.rs).  A connect is      *)
(* unfolded into what it does, in order, and its Result:                   *)
(*   step  a call connect makes, with the outcome the environment gives it *)
(*   log   one log!(..) line appended to the transcript                    *)
(* ServerConfig keeps the fields connect reads; an Option<String> is <<>>  *)
(* for None and <<s>> for Some(s).  A file name of the key directory is    *)
(* the sequence of its segments (<<"id_rsa", ".pub">> is id_rsa.pub).      *)

St(n, arg, ok) == [t |-> "step", n |-> n, arg |-> arg, ok |-> ok]
Log(msg, arg)  == [t |-> "log", n |-> msg, arg |-> arg, ok |-> TRUE]

Handle(auth_mode) == [ok |-> TRUE, err |-> <<>>, auth_mode |-> auth_mode]
Failure(chain)    == [ok |-> FALSE, err |-> chain, auth_mode |-> "none"]

is_set(option) == option # <<>> /\ option[1] # ""

(* auth::try_auth_with_password *)
try_auth_with_password(cfg, env) ==
    IF cfg.password # <<>>
    THEN Out(<<St("userauth_password", cfg.password, env.password_ok)>>,
             IF env.password_ok THEN Ok ELSE Err(<<{"ssh2: password rejected"}>>))
    ELSE Out(<<>>, Err(<<{"password is empty"}>>))

(* the "password" arm of connect_with_log *)
auth_password(cfg, env) ==
    LET a == try_auth_with_password(cfg, env)
    IN  Out(<<Log("trying password", <<>>)>> \o a.ev
              \o <<Log(IF a.res.ok THEN "password ok" ELSE "password failed", cfg.password)>>,
            a.res)

(* the "key" arm, 1: the key file named by the configuration *)
explicit_key(cfg, env) ==
    IF is_set(cfg.key_path)
    THEN [ev |-> <<Log("trying explicit key", cfg.key_path),
                   St("userauth_pubkey_file", cfg.key_path, env.key_ok),
                   Log(IF env.key_ok THEN "explicit key ok" ELSE "explicit key failed", cfg.key_path)>>,
          authenticated |-> env.key_ok]
    ELSE [ev |-> <<>>, authenticated |-> FALSE]

(* the "key" arm, 2: the SSH agent *)
agent_always(authenticated, cfg, env) ==
    [ev |-> <<Log("trying agent", <<>>),
              St("userauth_agent", <<>>, env.agent_ok),
              Log(IF env.agent_ok THEN "agent ok" ELSE "agent failed", <<>>)>>,
     authenticated |-> authenticated \/ env.agent_ok]

agent(authenticated, cfg, env) ==
    IF ~authenticated
    THEN [ev |-> <<Log("trying agent", <<>>),
                   St("userauth_agent", <<>>, env.agent_ok),
                   Log(IF env.agent_ok THEN "agent ok" ELSE "agent failed", <<>>)>>,
          authenticated |-> env.agent_ok]
    ELSE [ev |-> <<>>, authenticated |-> TRUE]

(* the "key" arm, 3: the files of ~/.ssh *)
ends_with(file_name, suffix) == file_name # <<>> /\ file_name[Len(file_name)] = suffix
starts_with(file_name, prefix) == file_name # <<>> /\ file_name[1] = prefix

skipped_exact(file_name) ==
    \/ ends_with(file_name, ".pub")
    \/ file_name = <<"known_hosts">>
    \/ file_name = <<"config">>
    \/ file_name = <<"authorized_keys">>

skipped(file_name) ==
    \/ ends_with(file_name, ".pub")
    \/ file_name = <<"known_hosts">> \/ starts_with(file_name, "known_hosts")
    \/ file_name = <<"config">>
    \/ file_name = <<"authorized_keys">>

SshDir(file_name) == <<"~/.ssh">> \o file_name

try_key_file_quiet(e) ==
    <<Log("trying key file", e.name), St("userauth_pubkey_file", SshDir(e.name), e.ok)>>
      \o (IF e.ok THEN <<Log("key file ok", e.name)>> ELSE <<>>)

try_key_file(e) ==
    <<Log("trying key file", e.name),
      St("userauth_pubkey_file", SshDir(e.name), e.ok),
      Log(IF e.ok THEN "key file ok" ELSE "key file mismatch", e.name)>>

(* the loop over the directory's entries, from entry i on *)
RECURSIVE probe_entries(_, _)
probe_entries(entries, i) ==
    IF i > Len(entries) THEN [ev |-> <<>>, authenticated |-> FALSE]
    ELSE LET e == entries[i]
         IN  IF e.is_dir \/ skipped(e.name) THEN probe_entries(entries, i + 1)
             ELSE IF e.ok THEN [ev |-> try_key_file(e), authenticated |-> TRUE]
             ELSE LET r == probe_entries(entries, i + 1)
                  IN  [ev |-> try_key_file(e) \o r.ev, authenticated |-> r.authenticated]

auto_probe(authenticated, cfg, env) ==
    IF authenticated THEN [ev |-> <<>>, authenticated |-> TRUE]
    ELSE IF env.home = "none"
    THEN [ev |-> <<Log("probing ~/.ssh", <<>>), St("home_dir", <<>>, FALSE),
                   Log("no home directory", <<>>)>>,
          authenticated |-> FALSE]
    ELSE IF env.home = "no_ssh_dir"
    THEN [ev |-> <<Log("probing ~/.ssh", <<>>), St("home_dir", <<>>, TRUE),
                   St("read_dir", <<>>, FALSE)>>,
          authenticated |-> FALSE]
    ELSE LET r == probe_entries(env.entries, 1)
         IN  [ev |-> <<Log("probing ~/.ssh", <<>>), St("home_dir", <<>>, TRUE),
                       St("read_dir", <<>>, TRUE)>> \o r.ev,
              authenticated |-> r.authenticated]

(* the "key" arm of connect_with_log *)
auth_key(cfg, env) ==
    LET k == explicit_key(cfg, env)
        a == agent(k.authenticated, cfg, env)
        d == auto_probe(a.authenticated, cfg, env)
        ev == <<Log("trying key auth", <<>>)>> \o k.ev \o a.ev \o d.ev
    IN  IF d.authenticated THEN Out(ev, Ok)
        ELSE Out(ev \o <<Log("all key attempts failed", <<>>)>>,
                 Err(<<{"all key authentication failed"}>>))

(* match config.auth_type.as_str() *)
authenticate(cfg, env) ==
    IF cfg.auth_type = "password" THEN auth_password(cfg, env)
    ELSE IF cfg.auth_type = "key" THEN auth_key(cfg, env)
    ELSE Out(<<>>, Err(<<{"unsupported auth type"}>>))

(* native_fallback::perform_native_ssh_check: ssh -V, then the batch-mode  *)
(* ssh that runs "exit 0" on the server.                                   *)
perform_native_ssh_check(cfg, env) ==
    LET identity == IF cfg.auth_type = "key" /\ is_set(cfg.key_path) THEN cfg.key_path ELSE <<>>
    IN  IF env.probe = "no_ssh"
        THEN Out(<<St("ssh -V", <<>>, FALSE)>>, Err(<<{"probe: ssh command not found"}>>))
        ELSE IF env.probe = "spawn_fail"
        THEN Out(<<St("ssh -V", <<>>, TRUE), St("ssh exit 0", identity, FALSE)>>,
                 Err(<<{"probe: os error"}>>))
        ELSE IF env.probe = "ok"
        THEN Out(<<St("ssh -V", <<>>, TRUE), St("ssh exit 0", identity, TRUE)>>, Ok)
        ELSE Out(<<St("ssh -V", <<>>, TRUE), St("ssh exit 0", identity, FALSE)>>,
                 Err(<<{"probe: exit code", "probe: stderr"}>>))

(* (Err(e), logs) after a failed probe: e is the native error *)
fallback_error_of_probe(e, nt_e) == Failure(nt_e.err)
fallback_error(e, nt_e) == Failure(e.err)

(* the Err(e) arm of match auth_result *)
fallback(e, cfg, env) ==
    LET p == perform_native_ssh_check(cfg, env)
        head == <<Log("authentication ended", Display(e)), Log("separator", <<>>),
                  Log("trying native ssh", <<>>),
                  St("perform_native_ssh_check", <<>>, p.res.ok)>> \o p.ev
    IN  IF p.res.ok
        THEN Out(head \o <<Log("native ssh ok", <<>>), Log("diagnosis: key format", <<>>),
                           Log("hint: scp will be used", <<>>)>>,
                 Handle("NativeSsh"))
        ELSE Out(head \o <<Log("native ssh failed", Display(p.res)),
                           Log("diagnosis: network or configuration", <<>>)>>,
                 fallback_error(e, p.res))

(* match auth_result *)
finish_unchecked(auth_result, cfg, env) ==
    IF auth_result.ok
    THEN Out(<<Log("final state: connected", <<>>)>>, Handle("LibSsh2"))
    ELSE fallback(auth_result, cfg, env)

finish(auth_result, cfg, env) ==
    IF auth_result.ok
    THEN IF env.authenticated
         THEN Out(<<St("authenticated", <<>>, TRUE), Log("final state: connected", <<>>)>>,
                  Handle("LibSsh2"))
         ELSE Out(<<St("authenticated", <<>>, FALSE), Log("session not authenticated", <<>>)>>,
                  Failure(<<{"authentication did not pass"}>>))
    ELSE fallback(auth_result, cfg, env)

(* from the result of session.handshake() on *)
after_handshake_falls_back(hs_ok, cfg, env) ==
    IF ~hs_ok
    THEN LET f == fallback(Err(<<{"SSH handshake failed"}, {"ssh2 error"}>>), cfg, env)
         IN  Out(<<Log("handshake failed", <<>>)>> \o f.ev, f.res)
    ELSE LET a == authenticate(cfg, env)
             f == finish(a.res, cfg, env)
         IN  Out(<<Log("handshake ok", <<>>)>> \o a.ev \o f.ev, f.res)

after_handshake(hs_ok, cfg, env) ==
    IF ~hs_ok
    THEN Out(<<Log("handshake failed", <<>>)>>,
             Failure(<<{"SSH handshake failed"}, {"ssh2 error"}>>))
    ELSE LET a == authenticate(cfg, env)
             f == finish(a.res, cfg, env)
         IN  Out(<<Log("handshake ok", <<>>)>> \o a.ev \o f.ev, f.res)

(* SshUploader::connect_with_log *)
connect_with_log(cfg, env) ==
    LET start == <<Log("connecting", <<>>)>>
        tcp == start \o <<St("tcp", <<>>, TRUE), Log("tcp ok", <<>>)>>
    IN  IF env.net = "tcp_fail"
        THEN Out(start \o <<St("tcp", <<>>, FALSE), Log("tcp failed", <<>>)>>,
                 Failure(<<{"TCP connect failed"}, {"io error"}>>))
        ELSE IF env.net = "session_fail"
        THEN Out(tcp \o <<St("Session::new", <<>>, FALSE), Log("session failed", <<>>)>>,
                 Failure(<<{"Session creation failed"}, {"ssh2 error"}>>))
        ELSE IF env.net = "clone_fail"
        THEN Out(tcp \o <<St("Session::new", <<>>, TRUE), St("try_clone", <<>>, FALSE),
                          Log("clone failed", <<>>)>>,
                 Failure(<<{"TCP clone failed"}, {"io error"}>>))
        ELSE LET hs_ok == env.net # "handshake_fail"
                 r == after_handshake(hs_ok, cfg, env)
             IN  Out(tcp \o <<St("Session::new", <<>>, TRUE), St("try_clone", <<>>, TRUE),
                              St("handshake", <<>>, hs_ok)>> \o r.ev,
                     r.res)

(* SshUploader::connect: the Result without the transcript *)
connect(cfg, env) == connect_with_log(cfg, env).res

----------------------------------------------------------------------------
(* CSpec: one connect, for every configuration and every behaviour of the  *)
(* network, the server, the agent, the key directory and the external ssh  *)
(* within the bounds.                                                      *)

MaxKeyFiles == 2    \* most entries of the key directory

Config(auth_type, password, key_path) ==
    [auth_type |-> auth_type, password |-> password, key_path |-> key_path]

Env(net, password_ok, key_ok, agent_ok, home, entries, authenticated, probe) ==
    [net |-> net, password_ok |-> password_ok, key_ok |-> key_ok, agent_ok |-> agent_ok,
     home |-> home, entries |-> entries, authenticated |-> authenticated, probe |-> probe]

(* convert::from_ui: an empty text field becomes None. *)
from_ui(ui_config) ==
    Config(ui_config.auth_type,
           IF ui_config.password = "" THEN <<>> ELSE <<ui_config.password>>,
           IF ui_config.key_path = "" THEN <<>> ELSE <<ui_config.key_path>>)

UiConfig(auth_type, password, key_path) ==
    [auth_type |-> auth_type, password |-> password, key_path |-> key_path]

(* The configurations: those the settings form saves, and those of a       *)
(* configuration file that spells an empty password or key path out.       *)
PasswordConfigs ==
    {from_ui(UiConfig("password", pw, "")) : pw \in {"", "secret"}}
    \cup {Config("password", <<"">>, <<>>)}
KeyConfigs ==
    {from_ui(UiConfig("key", "", kp)) : kp \in {"", "/keys/id_work"}}
    \cup {Config("key", <<>>, <<"">>)}
Probes    == {"no_ssh", "spawn_fail", "exit_nonzero", "ok"}
NetFailures == {"tcp_fail", "session_fail", "clone_fail", "handshake_fail"}

(* What ~/.ssh can hold: key files that the server accepts or not, the     *)
(* usual files that are not keys, and a sub-directory.                     *)
FileNames ==
    {<<"id_rsa">>, <<"id_rsa", ".pub">>, <<"known_hosts">>, <<"known_hosts", ".old">>,
     <<"config">>, <<"authorized_keys">>}
DirEntries ==
    {[name |-> n, is_dir |-> FALSE, ok |-> ok] : n \in FileNames, ok \in BOOLEAN}
    \cup {[name |-> <<"keys.d">>, is_dir |-> TRUE, ok |-> FALSE]}
Listings == UNION {[1..k -> DirEntries] : k \in 0..MaxKeyFiles}

SomeListings ==
    {<<>>,
     <<[name |-> <<"id_rsa">>, is_dir |-> FALSE, ok |-> TRUE]>>,
     <<[name |-> <<"id_rsa">>, is_dir |-> FALSE, ok |-> FALSE]>>}

CCalls ==
    \* the network or the handshake fails
    {[op |-> "connect", cfg |-> Config(a, <<"secret">>, <<>>),
      env |-> Env(n, TRUE, TRUE, TRUE, "ok", <<>>, TRUE, "ok")] :
        a \in {"password", "key", "other"}, n \in NetFailures}
    \* a password credential
    \cup {[op |-> "connect", cfg |-> c,
           env |-> Env("ok", pok, FALSE, FALSE, "ok", <<>>, au, pr)] :
             c \in PasswordConfigs, pok \in BOOLEAN, au \in BOOLEAN, pr \in Probes}
    \* an authentication type connect does not know
    \cup {[op |-> "connect", cfg |-> Config("other", <<"secret">>, <<>>),
           env |-> Env("ok", TRUE, TRUE, TRUE, "ok", <<>>, TRUE, pr)] : pr \in Probes}
    \* a key credential: explicit key, agent and directory in every combination
    \cup {[op |-> "connect", cfg |-> c,
           env |-> Env("ok", FALSE, kok, aok, h[1], h[2], au, pr)] :
             c \in KeyConfigs, kok \in BOOLEAN, aok \in BOOLEAN,
             h \in {<<"none", <<>>>>, <<"no_ssh_dir", <<>>>>} \cup {<<"ok", l>> : l \in SomeListings},
             au \in BOOLEAN, pr \in Probes}
    \* a key credential without explicit key or agent: every key directory
    \cup {[op |-> "connect", cfg |-> Config("key", <<>>, <<>>),
           env |-> Env("ok", FALSE, FALSE, FALSE, "ok", l, au, pr)] :
             l \in Listings, au \in BOOLEAN, pr \in {"exit_nonzero", "ok"}}

CInit ==
    /\ ccall \in CCalls
    /\ csteps = <<>> /\ logs = <<>>
    /\ crest = connect_with_log(ccall.cfg, ccall.env).ev
    /\ cres = [state |-> "running", res |-> Handle("none"), logs |-> <<>>]
    /\ IdleQueue /\ IdleApp /\ IdleX /\ IdleTimer /\ IdleSh /\ IdleLk

(* connect makes its next call. *)
CStep ==
    /\ cres.state = "running" /\ crest # <<>> /\ Head(crest).t = "step"
    /\ csteps' = Append(csteps, Head(crest))
    /\ crest' = Tail(crest)
    /\ UNCHANGED <<ccall, logs, cres, queueVars, appVars, xVars, timerVars, sh, lk>>

(* log!(..): one more line of the transcript. *)
CLog ==
    /\ cres.state = "running" /\ crest # <<>> /\ Head(crest).t = "log"
    /\ logs' = Append(logs, Head(crest))
    /\ crest' = Tail(crest)
    /\ UNCHANGED <<ccall, csteps, cres, queueVars, appVars, xVars, timerVars, sh, lk>>

(* connect_with_log returns (Result, logs). *)
CReturn ==
    /\ cres.state = "running" /\ crest = <<>>
    /\ cres' = [state |-> "returned", res |-> connect(ccall.cfg, ccall.env), logs |-> logs]
    /\ UNCHANGED <<ccall, csteps, logs, crest, queueVars, appVars, xVars, timerVars, sh, lk>>

CNext ==
    \/ CStep
    \/ CLog
    \/ CReturn

CSpec == CInit /\ [][CNext]_vars

----------------------------------------------------------------------------
(* QSpec: the queue as a passive structure, every operation called with    *)
(* every argument, in every order.                                         *)

Directions == {"Upload", "Download"}
QIds       == 0..MaxEnqueue
QProgress  == {0, One \div 2, One}
QReasons   == {{"timeout"}}
QSize      == 1024

QInit ==
    /\ tasks = <<>> /\ next_id = 0
    /\ last = NoCall /\ issued = <<>> /\ clock = 0
    /\ IdleApp /\ IdleX /\ IdleConn /\ IdleTimer /\ IdleSh /\ IdleLk

QEnqueue ==
    /\ next_id < MaxEnqueue
    /\ \E d \in Directions :
         tasks' = enqueue(tasks, next_id, d, "file.txt", "/remote/file.txt", "file.txt", QSize)
    /\ next_id' = next_id + 1
    /\ last' = Call("enqueue", tasks'[Len(tasks')].id, TRUE)
    /\ issued' = Append(issued, tasks'[Len(tasks')].id)
    /\ UNCHANGED <<clock, appVars, xVars, connVars, timerVars, sh, lk>>

QUpdateProgress ==
    /\ \E id \in QIds, p \in QProgress :
         /\ tasks' = update_progress(tasks, id, p, clock)
         /\ last' = CallWith("update_progress", id, HasTask(tasks, id), <<p, clock>>)
    /\ UNCHANGED <<next_id, issued, clock, appVars, xVars, connVars, timerVars, sh, lk>>

QMarkCompleted ==
    /\ \E id \in QIds :
         /\ tasks' = mark_completed(tasks, id)
         /\ last' = Call("mark_completed", id, HasTask(tasks, id))
    /\ UNCHANGED <<next_id, issued, clock, appVars, xVars, connVars, timerVars, sh, lk>>

QMarkFailed ==
    /\ \E id \in QIds, e \in QReasons :
         /\ tasks' = mark_failed(tasks, id, e)
         /\ last' = CallWith("mark_failed", id, HasTask(tasks, id), <<e>>)
    /\ UNCHANGED <<next_id, issued, clock, appVars, xVars, connVars, timerVars, sh, lk>>

QRetry ==
    /\ \E id \in QIds :
         /\ tasks' = retry(tasks, id)
         /\ last' = Call("retry", id, retry_ok(tasks, id))
    /\ UNCHANGED <<next_id, issued, clock, appVars, xVars, connVars, timerVars, sh, lk>>

QClearCompleted ==
    /\ tasks' = clear_completed(tasks)
    /\ last' = Call("clear_completed", None, TRUE)
    /\ UNCHANGED <<next_id, issued, clock, appVars, xVars, connVars, timerVars, sh, lk>>

QNext ==
    \/ QEnqueue
    \/ QUpdateProgress
    \/ QMarkCompleted
    \/ QMarkFailed
    \/ QRetry
    \/ QClearCompleted

QSpec == QInit /\ [][QNext]_vars

----------------------------------------------------------------------------
(* QClockSpec: the queue with time passing between the calls, for what     *)
(* depends on Instant::now().                                              *)

MaxTimedTasks == 1  \* QClockSpec: enqueue calls per behaviour
MaxClock      == 1  \* QClockSpec: the last instant the clock reaches

TEnqueue ==
    /\ next_id < MaxTimedTasks
    /\ \E d \in Directions :
         tasks' = enqueue(tasks, next_id, d, "file.txt", "/remote/file.txt", "file.txt", QSize)
    /\ next_id' = next_id + 1
    /\ last' = Call("enqueue", tasks'[Len(tasks')].id, TRUE)
    /\ issued' = Append(issued, tasks'[Len(tasks')].id)
    /\ UNCHANGED <<clock, appVars, xVars, connVars, timerVars, sh, lk>>

(* Time passes. *)
Tick ==
    /\ clock < MaxClock
    /\ clock' = clock + 1
    /\ last' = NoCall
    /\ UNCHANGED <<tasks, next_id, issued, appVars, xVars, connVars, timerVars, sh, lk>>

TUpdateProgress ==
    /\ \E id \in 0..MaxTimedTasks, p \in QProgress :
         /\ tasks' = update_progress(tasks, id, p, clock)
         /\ last' = CallWith("update_progress", id, HasTask(tasks, id), <<p, clock>>)
    /\ UNCHANGED <<next_id, issued, clock, appVars, xVars, connVars, timerVars, sh, lk>>

TNext ==
    \/ TEnqueue
    \/ Tick
    \/ TUpdateProgress
    \/ QMarkCompleted
    \/ QMarkFailed
    \/ QRetry
    \/ QClearCompleted

QClockSpec == QInit /\ [][TNext]_vars

----------------------------------------------------------------------------
(* TimerSpec: the presentation timer of start_transfer_queue_sync beside   *)
(* the queue calls of the other callbacks and of the worker threads.  The  *)
(* timer's callback runs on the UI thread, so the queue calls of the UI    *)
(* thread happen between two runs of it; those of the workers happen       *)
(* whenever the queue's lock is free.                                      *)

MaxShown == 2  \* TimerSpec: enqueue calls per behaviour

(* The TransferEntry built from one task; speed and eta, which read the    *)
(* clock at the time of rendering, are left out.                           *)
status_text(status) ==
    CASE status = Pending    -> "pending"
      [] status = InProgress -> "progress"
      [] status = Completed  -> "done"
      [] OTHER               -> "failed"

error_msg(status) == IF status.kind = "Failed" THEN status.reason ELSE NoText

\* the two labels of the direction column
direction_text(direction) == IF direction = "Upload" THEN "shangchuan" ELSE "xiazai"

TransferEntry(t) ==
    [task_id |-> t.id, file_name |-> t.file_name,
     direction |-> direction_text(t.direction), progress |-> t.progress,
     status |-> status_text(t.status), error_msg |-> error_msg(t.status)]

transfer_entries(ts) == [i \in 1..Len(ts) |-> TransferEntry(ts[i])]

(* let q = queue.lock().unwrap(); *)
TimerLock ==
    /\ timerPc = "idle" /\ queueLock = Free
    /\ queueLock' = Ui
    /\ timerPc' = "locked"
    /\ last' = NoCall
    /\ UNCHANGED <<tasks, next_id, issued, clock, rsLock, remote_state, localDirs,
                   eventLoop, workers, uiPc, timer_tasks, transfer_tasks, xVars, connVars, sh, lk>>

(* let tasks = q.snapshot(); without the drop(q) that follows *)
TimerSnapshot_keeps_lock ==
    /\ timerPc = "locked"
    /\ timer_tasks' = snapshot(tasks)
    /\ timerPc' = "render"
    /\ last' = Call("snapshot", None, TRUE)
    /\ UNCHANGED <<tasks, next_id, issued, clock, queueLock, rsLock, remote_state, localDirs,
                   eventLoop, workers, uiPc, transfer_tasks, xVars, connVars, sh, lk>>

(* let tasks = q.snapshot(); drop(q); *)
TimerSnapshot ==
    /\ timerPc = "locked"
    /\ timer_tasks' = snapshot(tasks)
    /\ queueLock' = Free
    /\ timerPc' = "render"
    /\ last' = Call("snapshot", None, TRUE)
    /\ UNCHANGED <<tasks, next_id, issued, clock, rsLock, remote_state, localDirs,
                   eventLoop, workers, uiPc, transfer_tasks, xVars, connVars, sh, lk>>

(* ui.set_transfer_tasks(..); the local `tasks` ends with the callback *)
TimerRender ==
    /\ timerPc = "render"
    /\ transfer_tasks' = transfer_entries(timer_tasks)
    /\ timer_tasks' = <<>>
    /\ timerPc' = "idle"
    /\ last' = NoCall
    /\ UNCHANGED <<tasks, next_id, issued, clock, queueLock, rsLock, remote_state, localDirs,
                   eventLoop, workers, uiPc, xVars, connVars, sh, lk>>

(* The queue calls of the UI thread's other callbacks. *)
UiFree == timerPc = "idle" /\ queueLock = Free

PEnqueue ==
    /\ UiFree
    /\ next_id < MaxShown
    /\ tasks' = enqueue(tasks, next_id, "Upload", "file.txt", "/remote/file.txt", "file.txt", QSize)
    /\ next_id' = next_id + 1
    /\ last' = Call("enqueue", tasks'[Len(tasks')].id, TRUE)
    /\ issued' = Append(issued, tasks'[Len(tasks')].id)
    /\ UNCHANGED <<clock, appVars, xVars, connVars, timerVars, sh, lk>>

PUpdateProgress ==
    /\ UiFree
    /\ \E id \in 0..(MaxShown - 1) :
         /\ tasks' = update_progress(tasks, id, One \div 2, clock)
         /\ last' = CallWith("update_progress", id, HasTask(tasks, id), <<One \div 2, clock>>)
    /\ UNCHANGED <<next_id, issued, clock, appVars, xVars, connVars, timerVars, sh, lk>>

PRetry == UiFree /\ QRetry

PClearCompleted == UiFree /\ QClearCompleted

(* The queue calls of the worker threads. *)
PMarkCompleted == queueLock = Free /\ QMarkCompleted

PMarkFailed == queueLock = Free /\ QMarkFailed

PNext ==
    \/ TimerLock
    \/ TimerSnapshot
    \/ TimerRender
    \/ PEnqueue
    \/ PUpdateProgress
    \/ PRetry
    \/ PClearCompleted
    \/ PMarkCompleted
    \/ PMarkFailed

TimerSpec == QInit /\ [][PNext]_vars

----------------------------------------------------------------------------
(* ShSpec: the texts the program hands to a remote shell (remote_fs.rs,    *)
(* infra/ssh/client.rs, infra/ssh/transfer.rs).  A string is the sequence  *)
(* of its characters; the fixed words of a command are one element each.   *)

MaxPathLen == 3  \* ShSpec: characters of a remote path

Quote     == "'"
Backslash == "\\"
DQuote    == "\""
PathChars == {"a", Quote, Backslash, DQuote, "$", ";"}

(* str::replace with a one-character pattern *)
RECURSIVE replace(_, _, _)
replace(s, from, to) ==
    IF s = <<>> THEN <<>>
    ELSE (IF Head(s) = from THEN to ELSE <<Head(s)>>) \o replace(Tail(s), from, to)

(* escape_shell_arg without the replace *)
escape_shell_arg_wrap_only(arg) == <<Quote>> \o arg \o <<Quote>>

(* escape_shell_arg: replace('\'', "'\\''") and format!("'{}'") *)
escape_shell_arg(arg) ==
    LET escaped == replace(arg, Quote, <<Quote, Backslash, Quote, Quote>>)
    IN  <<Quote>> \o escaped \o <<Quote>>

(* remote_fs::remote_mkdir, remote_remove, remote_rename, list_dir_native *)
remote_mkdir_cmd(path) == <<"mkdir", " ", "-p", " ">> \o escape_shell_arg(path)

remote_remove_cmd(path, is_dir) ==
    IF is_dir THEN <<"rm", " ", "-rf", " ">> \o escape_shell_arg(path)
    ELSE <<"rm", " ", "-f", " ">> \o escape_shell_arg(path)

remote_rename_cmd(old_path, new_path) ==
    <<"mv", " ">> \o escape_shell_arg(old_path) \o <<" ">> \o escape_shell_arg(new_path)

list_dir_native_cmd(path) ==
    <<"ls", " ", "-la", " ", "--time-style=long-iso", " ">> \o escape_shell_arg(path)

(* SshUploader::remote_mkdir: both arms build the same text *)
uploader_mkdir_cmd(path) ==
    LET path_str == replace(path, Backslash, <<"/">>)
    IN  <<"mkdir", " ", "-p", " ", Quote>>
        \o replace(path_str, Quote, <<Quote, Backslash, Quote, Quote>>) \o <<Quote>>

(* upload_via_sftp: mkdir -p "{parent_unix}" *)
sftp_parent_mkdir_cmd(parent) ==
    LET parent_unix == replace(parent, Backslash, <<"/">>)
    IN  <<"mkdir", " ", "-p", " ", DQuote>> \o parent_unix \o <<DQuote>>

(* build_remote_target: format!("{}@{}:{}", user, host, remote_path) *)
build_remote_target(remote_path) == <<"user", "@", "host", ":">> \o remote_path

Strings(n) == UNION {[1..k -> PathChars] : k \in 0..n}
ShPaths  == Strings(MaxPathLen)
NewPaths == Strings(1)

(* list_dir_sftp, remote_exec and SshUploader::remote_mkdir choose between *)
(* the session of the handle and the system's ssh client by auth_mode.     *)
Sent(via, text) == [via |-> via, text |-> text]

list_dir_sftp(uploader, path) ==
    IF uploader.auth_mode = "NativeSsh"
    THEN Sent("ssh", list_dir_native_cmd(path))
    ELSE Sent("session", <<>>)   \* sftp.readdir: no command text

remote_exec_session_only(uploader, command) == Sent("session", command)

remote_exec(uploader, command) ==
    IF uploader.auth_mode = "NativeSsh"
    THEN Sent("ssh", command)
    ELSE Sent("session", command)

uploader_remote_mkdir(uploader, path) ==
    IF uploader.auth_mode = "LibSsh2"
    THEN Sent("session", uploader_mkdir_cmd(path))
    ELSE Sent("ssh", uploader_mkdir_cmd(path))

Built(op, pre, paths, sent) ==
    [state |-> "built", op |-> op, pre |-> pre, paths |-> paths,
     via |-> sent.via, text |-> sent.text, uploader |-> sh.uploader]

(* The handle is one that connect has returned. *)
ShInit ==
    /\ sh \in {[state |-> "input", path |-> p, uploader |-> Handle(mode)] :
                  p \in ShPaths, mode \in Modes}
    /\ IdleQueue /\ IdleApp /\ IdleX /\ IdleConn /\ IdleTimer /\ IdleLk

ShEscape ==
    /\ sh.state = "input"
    /\ sh' = Built("escape_shell_arg", <<>>, <<sh.path>>,
                   Sent("none", escape_shell_arg(sh.path)))
    /\ UNCHANGED <<queueVars, appVars, xVars, connVars, timerVars, lk>>

ShMkdir ==
    /\ sh.state = "input"
    /\ sh' = Built("remote_mkdir", <<"mkdir", " ", "-p", " ">>, <<sh.path>>,
                   remote_exec(sh.uploader, remote_mkdir_cmd(sh.path)))
    /\ UNCHANGED <<queueVars, appVars, xVars, connVars, timerVars, lk>>

ShRemove ==
    /\ sh.state = "input"
    /\ \E is_dir \in BOOLEAN :
         sh' = Built("remote_remove",
                     <<"rm", " ", (IF is_dir THEN "-rf" ELSE "-f"), " ">>, <<sh.path>>,
                     remote_exec(sh.uploader, remote_remove_cmd(sh.path, is_dir)))
    /\ UNCHANGED <<queueVars, appVars, xVars, connVars, timerVars, lk>>

ShRename ==
    /\ sh.state = "input"
    /\ \E new_path \in NewPaths :
         sh' = Built("remote_rename", <<"mv", " ">>, <<sh.path, new_path>>,
                     remote_exec(sh.uploader, remote_rename_cmd(sh.path, new_path)))
    /\ UNCHANGED <<queueVars, appVars, xVars, connVars, timerVars, lk>>

ShList ==
    /\ sh.state = "input"
    /\ sh' = Built("list_dir_sftp",
                   <<"ls", " ", "-la", " ", "--time-style=long-iso", " ">>, <<sh.path>>,
                   list_dir_sftp(sh.uploader, sh.path))
    /\ UNCHANGED <<queueVars, appVars, xVars, connVars, timerVars, lk>>

ShUploaderMkdir ==
    /\ sh.state = "input"
    /\ sh' = Built("uploader_mkdir", <<"mkdir", " ", "-p", " ">>,
                   <<replace(sh.path, Backslash, <<"/">>)>>,
                   uploader_remote_mkdir(sh.uploader, sh.path))
    /\ UNCHANGED <<queueVars, appVars, xVars, connVars, timerVars, lk>>

(* upload_via_sftp always opens its channel on the session *)
ShSftpParent ==
    /\ sh.state = "input"
    /\ sh' = Built("upload_via_sftp", <<"mkdir", " ", "-p", " ">>,
                   <<replace(sh.path, Backslash, <<"/">>)>>,
                   Sent("session", sftp_parent_mkdir_cmd(sh.path)))
    /\ UNCHANGED <<queueVars, appVars, xVars, connVars, timerVars, lk>>

(* the argument of the scp command *)
ShScpTarget ==
    /\ sh.state = "input"
    /\ sh' = Built("build_remote_target", <<"user", "@", "host", ":">>, <<sh.path>>,
                   Sent("scp", build_remote_target(sh.path)))
    /\ UNCHANGED <<queueVars, appVars, xVars, connVars, timerVars, lk>>

ShNext ==
    \/ ShEscape
    \/ ShMkdir
    \/ ShRemove
    \/ ShRename
    \/ ShList
    \/ ShUploaderMkdir
    \/ ShSftpParent
    \/ ShScpTarget

ShSpec == ShInit /\ [][ShNext]_vars

-----------------------------------------------------------------------------
(* LockSpec: the order in which the threads take and drop the three        *)
(* mutexes (ui_bridge/transfer_manager.rs, ui_bridge/remote_browser.rs,    *)
(* ui_bridge/local_browser.rs).  A callback, closure or thread body is the *)
(* sequence of its lock(), guard-drop and thread::spawn steps; the UI      *)
(* thread runs one callback or closure at a time.  std::sync::Mutex is not *)
(* reentrant: lock() waits while anyone, the caller included, holds it.    *)

MaxLockWorkers == 2  \* LockSpec: threads spawned in one behaviour

Locks == {"queue", "remote_state", "local_state"}

Acq(l)   == [op |-> "lock", l |-> l]
Rel(l)   == [op |-> "drop", l |-> l]
Start(k) == [op |-> "spawn", l |-> k]

(* on_upload_selected with the enqueue moved into the block that holds     *)
(* the two state guards.                                                   *)
upload_selected_enqueue_in_block ==
    <<Acq("local_state"), Acq("remote_state"), Acq("queue"), Rel("queue"),
      Rel("remote_state"), Rel("local_state"), Start("first")>>

(* on_upload_selected: ls then rs inside a block, both dropped at its end; *)
(* then the queue lock for the enqueue, then thread::spawn.                *)
upload_selected ==
    <<Acq("local_state"), Acq("remote_state"), Rel("remote_state"), Rel("local_state"),
      Acq("queue"), Rel("queue"), Start("first")>>

(* on_download_selected: rs then ls inside a block. *)
download_selected ==
    <<Acq("remote_state"), Acq("local_state"), Rel("local_state"), Rel("remote_state"),
      Acq("queue"), Rel("queue"), Start("first")>>

(* Both callbacks return after the block when nothing is selected or no    *)
(* connection is stored.                                                   *)
returns_after_block(script) == SubSeq(script, 1, 4)

(* on_clear_completed_transfers, the 200 ms timer of                       *)
(* start_transfer_queue_sync and the deferred update_progress closure:     *)
(* the queue lock alone.                                                   *)
queue_only == <<Acq("queue"), Rel("queue")>>

(* on_retry_transfer: q is dropped before rs is locked; it returns under   *)
(* the queue guard when retry() is false.                                  *)
retry_transfer ==
    <<Acq("queue"), Rel("queue"), Acq("remote_state"), Rel("remote_state"), Start("retry")>>

(* refresh_remote_dir: the guard is held during list_dir_sftp, dropped,    *)
(* and taken again to store the listing.                                   *)
refresh_remote_dir ==
    <<Acq("remote_state"), Rel("remote_state"), Acq("remote_state"), Rel("remote_state")>>

(* refresh_local: the guard is dropped before local_fs::list_dir and taken *)
(* again to store the listing.                                             *)
refresh_local ==
    <<Acq("local_state"), Rel("local_state"), Acq("local_state"), Rel("local_state")>>

(* The remote browser's callbacks (navigate, go up, refresh, mkdir, ...):  *)
(* they drop their guard before they call refresh_remote_dir.              *)
remote_callback == <<Acq("remote_state"), Rel("remote_state")>> \o refresh_remote_dir

(* on_remote_connect: the connecting thread is spawned without a lock.     *)
remote_connect == <<Start("connect")>>

UiScripts ==
    {upload_selected, returns_after_block(upload_selected),
     download_selected, returns_after_block(download_selected),
     queue_only, retry_transfer, SubSeq(retry_transfer, 1, 2), SubSeq(retry_transfer, 1, 4),
     refresh_remote_dir, SubSeq(refresh_remote_dir, 1, 2),
     refresh_local, SubSeq(refresh_local, 1, 2), remote_callback, remote_connect}

(* The retried upload that succeeded: rs is locked for current_path while  *)
(* the queue guard `q` is alive until the end of the match arm.            *)
retry_upload_ok == <<Acq("queue"), Acq("remote_state"), Rel("remote_state"), Rel("queue")>>

(* What a spawned thread does with the locks: the transfer threads take    *)
(* the queue lock once the transfer has returned, the connecting thread    *)
(* the remote-state lock once it has connected and listed (or nothing      *)
(* when the connect failed).                                               *)
ThreadScripts(k) ==
    IF k = "first" THEN {queue_only}
    ELSE IF k = "retry" THEN {queue_only, retry_upload_ok}
    ELSE {<<Acq("remote_state"), Rel("remote_state")>>, <<>>}

Spawns(script) == \E i \in 1..Len(script) : script[i].op = "spawn"

LockInit ==
    /\ lk = [state |-> "run", holder |-> [l \in Locks |-> Free], ui |-> <<>>, th |-> <<>>]
    /\ IdleQueue /\ IdleApp /\ IdleX /\ IdleConn /\ IdleTimer /\ IdleSh

LkRunning == lk.state = "run"

(* The event loop starts a callback, the timer or a queued closure. *)
LkCallback ==
    /\ LkRunning /\ lk.ui = <<>>
    /\ \E script \in UiScripts :
         /\ Spawns(script) => Len(lk.th) < MaxLockWorkers
         /\ lk' = [lk EXCEPT !.ui = script]
    /\ UNCHANGED <<queueVars, appVars, xVars, connVars, timerVars, sh>>

(* mutex.lock() on the UI thread returns. *)
LkUiLock ==
    /\ LkRunning /\ lk.ui # <<>> /\ Head(lk.ui).op = "lock"
    /\ lk.holder[Head(lk.ui).l] = Free
    /\ lk' = [lk EXCEPT !.holder[Head(lk.ui).l] = Ui, !.ui = Tail(@)]
    /\ UNCHANGED <<queueVars, appVars, xVars, connVars, timerVars, sh>>

(* A guard of the UI thread drops. *)
LkUiDrop ==
    /\ LkRunning /\ lk.ui # <<>> /\ Head(lk.ui).op = "drop"
    /\ lk' = [lk EXCEPT !.holder[Head(lk.ui).l] = Free, !.ui = Tail(@)]
    /\ UNCHANGED <<queueVars, appVars, xVars, connVars, timerVars, sh>>

(* thread::spawn *)
LkSpawn ==
    /\ LkRunning /\ lk.ui # <<>> /\ Head(lk.ui).op = "spawn"
    /\ \E script \in ThreadScripts(Head(lk.ui).l) :
         lk' = [lk EXCEPT !.th = Append(@, script), !.ui = Tail(@)]
    /\ UNCHANGED <<queueVars, appVars, xVars, connVars, timerVars, sh>>

(* mutex.lock() in a spawned thread returns. *)
LkThreadLock(w) ==
    /\ LkRunning /\ w <= Len(lk.th) /\ lk.th[w] # <<>> /\ Head(lk.th[w]).op = "lock"
    /\ lk.holder[Head(lk.th[w]).l] = Free
    /\ lk' = [lk EXCEPT !.holder[Head(lk.th[w]).l] = Worker(w), !.th[w] = Tail(@)]
    /\ UNCHANGED <<queueVars, appVars, xVars, connVars, timerVars, sh>>

(* A guard of a spawned thread drops. *)
LkThreadDrop(w) ==
    /\ LkRunning /\ w <= Len(lk.th) /\ lk.th[w] # <<>> /\ Head(lk.th[w]).op = "drop"
    /\ lk' = [lk EXCEPT !.holder[Head(lk.th[w]).l] = Free, !.th[w] = Tail(@)]
    /\ UNCHANGED <<queueVars, appVars, xVars, connVars, timerVars, sh>>

LockNext ==
    \/ LkCallback
    \/ LkUiLock
    \/ LkUiDrop
    \/ LkSpawn
    \/ \E w \in 1..MaxLockWorkers : LkThreadLock(w)
    \/ \E w \in 1..MaxLockWorkers : LkThreadDrop(w)

(* A thread that is running keeps running, and a thread blocked in lock()  *)
(* gets the mutex if it is free again and again: a callback never returns  *)
(* with a guard alive, so the event loop frees every mutex between two     *)
(* callbacks.  The user is free to stop starting callbacks.                *)
LockFair ==
    /\ SF_vars(LkUiLock) /\ WF_vars(LkUiDrop) /\ WF_vars(LkSpawn)
    /\ \A w \in 1..MaxLockWorkers : SF_vars(LkThreadLock(w)) /\ WF_vars(LkThreadDrop(w))

LockSpec == LockInit /\ [][LockNext]_vars /\ LockFair

----------------------------------------------------------------------------
(* Spec: the application (ui_bridge/transfer_manager.rs).  The UI thread   *)
(* runs the callbacks and, first in first out, the closures queued by      *)
(* invoke_from_event_loop; every enqueued or retried task gets a thread    *)
(* of its own.                                                             *)

LocalEntries  == {[name |-> "lf", is_dir |-> FALSE, size |-> 1],
                  [name |-> "ld", is_dir |-> TRUE,  size |-> 0]}
RemoteEntries == {[name |-> "rf", is_dir |-> FALSE, size |-> 1],
                  [name |-> "rd", is_dir |-> TRUE,  size |-> 0]}
DefaultDir == "/home"

(* What the path of a task really is on the side it is read from. *)
SourceIsDir(direction, name) == name \in {"ld", "rd"}

Selections(S) ==
    {<<>>} \cup {<<e>> : e \in S} \cup {s \in S \X S : s[1] # s[2]}

(* The environment of one worker run.  A file behind a NativeSsh handle    *)
(* has no working native transport; a single-file copy aimed at a remote   *)
(* directory fails on both transports.                                     *)
AppLeaves(mode) ==
    {File("f", 1, 1, "ok", (IF mode = "LibSsh2" THEN "ok" ELSE "session_fail"), 0),
     File("f", 1, 1, "exit_nonzero", "session_fail", 0)}
    \cup (IF mode = "LibSsh2" THEN {File("f", 1, 1, "exit_nonzero", "ok", 0)} ELSE {})

AppPlans(op, mode, is_dir) ==
    IF IsFileOp(op)
    THEN IF is_dir THEN {File("f", 0, 0, "exit_nonzero", "open_fail", 0)} ELSE AppLeaves(mode)
    ELSE {Dir("d", "ok", "ok", kids) :
            kids \in SeqsUpTo({File("f", 1, 1, "ok", "session_fail", 0)}, MaxEntries)}
         \cup {Dir("d", "ok", "fail", <<>>)}

(* The steps of a run that change shared state: the progress callbacks     *)
(* and the creation of the local directory.  The blocking steps between    *)
(* them are part of the step that follows.                                 *)
Shared(e) == e.t = "cb" \/ (e.t = "io" /\ e.n = "create_dir_all" /\ e.v = 1)
Visible(ev) == SelectSeq(ev, Shared)

Closure(kind, id, v, path, w) == [kind |-> kind, id |-> id, v |-> v, path |-> path, run |-> w]

OpOf(direction, is_dir) ==
    IF direction = "Upload"
    THEN (IF is_dir THEN "upload_dir" ELSE "upload")
    ELSE (IF is_dir THEN "download_dir" ELSE "download")

(* The SshUploader handles: the one held by RemoteState (the browse         *)
(* connection) and the one a worker's own SshUploader::connect returns.    *)
NoConnection     == [opened_by |-> -1]
BrowseConnection == [opened_by |-> 0]
OwnConnection(w) == [opened_by |-> w]

(* thread::spawn(move || ...): the new thread, about to connect. *)
Spawn(task_id, direction, is_dir, local_path, name, rp, is_retry) ==
    [task_id |-> task_id, direction |-> direction, op |-> OpOf(direction, is_dir),
     local_path |-> local_path, name |-> name, rp |-> rp, retry |-> is_retry,
     pc |-> "connect", uploader |-> NoConnection, mode |-> "none",
     node |-> Dir("none", "ok", "ok", <<>>), ev |-> <<>>, res |-> Ok]

RetryRuns == Cardinality({w \in 1..Len(workers) : workers[w].retry})

Init ==
    /\ IdleQueue /\ IdleX /\ IdleConn /\ IdleTimer /\ IdleSh /\ IdleLk
    /\ queueLock = Free /\ rsLock = Free
    /\ remote_state = [uploader |-> TRUE, current_path |-> DefaultDir]
    /\ localDirs = {"ld"}
    /\ eventLoop = <<>> /\ workers = <<>> /\ uiPc = "idle"

UiIdle == uiPc = "idle"

(* The loop of on_upload_selected / on_download_selected over the selected *)
(* entries, from entry i on: enqueue under the queue lock, then spawn.     *)
RECURSIVE EnqueueAll(_, _, _, _, _, _)
EnqueueAll(sel, i, direction, q, nid, ws) ==
    IF i > Len(sel) THEN [q |-> q, nid |-> nid, ws |-> ws, ids |-> <<>>]
    ELSE LET e == sel[i]
             remote_path == <<remote_state.current_path, e.name>>
             q1 == enqueue(q, nid, direction, e.name, remote_path, e.name, e.size)
             id == q1[Len(q1)].id
             w  == Spawn(id, direction, e.is_dir, e.name, e.name,
                         remote_state.current_path, FALSE)
             rest == EnqueueAll(sel, i + 1, direction, q1, nid + 1, Append(ws, w))
         IN  [rest EXCEPT !.ids = <<id>> \o @]

TransferSelected(direction, sel) ==
    /\ UiIdle /\ queueLock = Free /\ rsLock = Free
    /\ next_id + Len(sel) <= MaxTasks
    /\ IF sel = <<>> \/ ~remote_state.uploader
       THEN /\ last' = NoCall
            /\ UNCHANGED <<tasks, next_id, issued, clock, workers>>
       ELSE LET r == EnqueueAll(sel, 1, direction, tasks, next_id, workers)
            IN  /\ tasks' = r.q
                /\ next_id' = r.nid
                /\ workers' = r.ws
                /\ issued' = issued \o r.ids
                /\ last' = Call("enqueue", r.ids[Len(r.ids)], TRUE)
    /\ UNCHANGED <<clock, queueLock, rsLock, remote_state, localDirs, eventLoop, uiPc, xVars, connVars, timerVars, sh, lk>>

(* bind_upload_selected *)
UploadSelected == \E sel \in Selections(LocalEntries) : TransferSelected("Upload", sel)

(* bind_download_selected: the selection is taken from the cached listing, *)
(* which is empty while disconnected.                                      *)
DownloadSelected ==
    \E sel \in Selections(RemoteEntries) :
        TransferSelected("Download", IF remote_state.uploader THEN sel ELSE <<>>)

(* bind_clear_completed_transfers *)
ClearCompletedTransfers ==
    /\ UiIdle /\ queueLock = Free
    /\ tasks' = clear_completed(tasks)
    /\ last' = Call("clear_completed", None, TRUE)
    /\ UNCHANGED <<next_id, issued, clock, appVars, xVars, connVars, timerVars, sh, lk>>

(* bind_retry_transfer, up to thread::spawn *)
RetryTransfer ==
    /\ UiIdle /\ queueLock = Free /\ rsLock = Free
    /\ RetryRuns < MaxRetries
    /\ \E task_id \in 0..MaxTasks :
         /\ tasks' = retry(tasks, task_id)
         /\ last' = Call("retry", task_id, retry_ok(tasks, task_id))
         /\ IF retry_ok(tasks, task_id) /\ get_task(tasks', task_id) # <<>>
               /\ remote_state.uploader
            THEN LET task == get_task(tasks', task_id)[1]
                 IN  workers' = Append(workers,
                        Spawn(task_id, task.direction, task.local_path \in localDirs,
                              task.local_path, task.file_name, "", TRUE))
            ELSE UNCHANGED workers
    /\ UNCHANGED <<next_id, issued, clock, queueLock, rsLock, remote_state, localDirs,
                   eventLoop, uiPc, xVars, connVars, timerVars, sh, lk>>

(* bind_remote_disconnect *)
RemoteDisconnect ==
    /\ UiIdle /\ rsLock = Free
    /\ remote_state.uploader
    /\ remote_state' = [uploader |-> FALSE, current_path |-> "/"]
    /\ last' = NoCall
    /\ UNCHANGED <<tasks, next_id, issued, clock, queueLock, rsLock, localDirs, eventLoop,
                   workers, uiPc, xVars, connVars, timerVars, sh, lk>>

(* bind_remote_connect: the connecting thread stores the new handle. *)
RemoteConnect ==
    /\ rsLock = Free
    /\ ~remote_state.uploader
    /\ remote_state' = [uploader |-> TRUE, current_path |-> DefaultDir]
    /\ last' = NoCall
    /\ UNCHANGED <<tasks, next_id, issued, clock, queueLock, rsLock, localDirs, eventLoop,
                   workers, uiPc, xVars, connVars, timerVars, sh, lk>>

(* bind_remote_refresh: refresh_remote_dir on the current path, up to the  *)
(* listing; without a connection it returns at once.                       *)
RemoteRefresh ==
    /\ UiIdle /\ rsLock = Free
    /\ IF remote_state.uploader
       THEN rsLock' = Ui /\ uiPc' = remote_state.current_path
       ELSE UNCHANGED <<rsLock, uiPc>>
    /\ last' = NoCall
    /\ UNCHANGED <<tasks, next_id, issued, clock, queueLock, remote_state, localDirs, eventLoop,
                   workers, xVars, connVars, timerVars, sh, lk>>

(* The event loop runs the oldest queued closure.  update_progress takes   *)
(* the queue lock; refresh_remote_dir takes the remote-state lock and      *)
(* keeps it while it lists the directory over the browse connection.       *)
RunClosure ==
    /\ UiIdle /\ eventLoop # <<>>
    /\ LET c == Head(eventLoop)
       IN  /\ eventLoop' = Tail(eventLoop)
           /\ IF c.kind = "update_progress"
              THEN /\ queueLock = Free
                   /\ tasks' = update_progress(tasks, c.id, c.v, Instant_now)
                   /\ last' = Call("update_progress", c.id, HasTask(tasks, c.id))
                   /\ UNCHANGED <<rsLock, uiPc>>
              ELSE IF c.kind = "refresh_remote" /\ remote_state.uploader
              THEN /\ rsLock = Free
                   /\ rsLock' = Ui
                   /\ uiPc' = c.path
                   /\ last' = NoCall
                   /\ UNCHANGED tasks
              ELSE /\ last' = NoCall
                   /\ UNCHANGED <<tasks, rsLock, uiPc>>
    /\ UNCHANGED <<next_id, issued, clock, queueLock, remote_state, localDirs, workers, xVars, connVars, timerVars, sh, lk>>

(* refresh_remote_dir, after list_dir_sftp has returned. *)
RefreshRemoteDone ==
    /\ ~UiIdle
    /\ remote_state' = [remote_state EXCEPT !.current_path = uiPc]
    /\ rsLock' = Free
    /\ uiPc' = "idle"
    /\ last' = NoCall
    /\ UNCHANGED <<tasks, next_id, issued, clock, queueLock, localDirs, eventLoop, workers, xVars, connVars, timerVars, sh, lk>>

(* A worker that runs its transfer on the handle held by RemoteState. *)
WConnect_on_browse(w) ==
    /\ workers[w].pc = "connect"
    /\ \/ workers' = [workers EXCEPT ![w].pc = "conn_failed"]
       \/ \E mode \in Modes :
            \E node \in AppPlans(workers[w].op, mode,
                                 SourceIsDir(workers[w].direction, workers[w].name)) :
              LET o == Run(workers[w].op, node, mode)
                  ev == Visible(o.ev)
              IN  workers' = [workers EXCEPT ![w].uploader = BrowseConnection,
                                             ![w].mode = mode, ![w].node = node,
                                             ![w].ev = ev, ![w].res = o.res,
                                             ![w].pc = IF ev = <<>> THEN "result" ELSE "transfer"]
    /\ last' = NoCall
    /\ UNCHANGED <<tasks, next_id, issued, clock, queueLock, rsLock, remote_state, localDirs,
                   eventLoop, uiPc, xVars, connVars, timerVars, sh, lk>>

(* SshUploader::connect in a worker thread, and the choice of what the     *)
(* transfer will meet. *)
WConnect(w) ==
    /\ workers[w].pc = "connect"
    /\ \/ workers' = [workers EXCEPT ![w].pc = "conn_failed"]
       \/ \E mode \in Modes :
            \E node \in AppPlans(workers[w].op, mode,
                                 SourceIsDir(workers[w].direction, workers[w].name)) :
              LET o == Run(workers[w].op, node, mode)
                  ev == Visible(o.ev)
              IN  workers' = [workers EXCEPT ![w].uploader = OwnConnection(w),
                                             ![w].mode = mode, ![w].node = node,
                                             ![w].ev = ev, ![w].res = o.res,
                                             ![w].pc = IF ev = <<>> THEN "result" ELSE "transfer"]
    /\ last' = NoCall
    /\ UNCHANGED <<tasks, next_id, issued, clock, queueLock, rsLock, remote_state, localDirs,
                   eventLoop, uiPc, xVars, connVars, timerVars, sh, lk>>

(* The transfer moves on to its next callback or directory creation.       *)
(* progress_cb queues update_progress for the event loop.                  *)
WStep(w) ==
    /\ workers[w].pc = "transfer"
    /\ LET e == Head(workers[w].ev)
           rest == Tail(workers[w].ev)
       IN  /\ workers' = [workers EXCEPT ![w].ev = rest,
                                         ![w].pc = IF rest = <<>> THEN "result" ELSE "transfer"]
           /\ IF e.t = "cb"
              THEN /\ eventLoop' = Append(eventLoop,
                          Closure("update_progress", workers[w].task_id, e.v, "", w))
                   /\ UNCHANGED localDirs
              ELSE /\ localDirs' = IF e.p = <<>> THEN localDirs \cup {workers[w].local_path}
                                   ELSE localDirs
                   /\ UNCHANGED eventLoop
    /\ last' = NoCall
    /\ UNCHANGED <<tasks, next_id, issued, clock, queueLock, rsLock, remote_state, uiPc, xVars, connVars, timerVars, sh, lk>>

(* queue_clone.lock().unwrap() in the worker, after connect or the         *)
(* transfer has returned.                                                  *)
WLock(w) ==
    /\ workers[w].pc \in {"conn_failed", "result"}
    /\ queueLock = Free
    /\ queueLock' = Worker(w)
    /\ workers' = [workers EXCEPT ![w].pc = IF @ = "conn_failed" THEN "conn_failed_locked"
                                            ELSE "result_locked"]
    /\ last' = NoCall
    /\ UNCHANGED <<tasks, next_id, issued, clock, rsLock, remote_state, localDirs, eventLoop,
                   uiPc, xVars, connVars, timerVars, sh, lk>>

ConnectFailed == {"connect failed", "connect: error"}

(* The text a worker hands to mark_failed: format!("{}", e). *)
FailureText(res) == Display(res)

(* Err(e) of connect, or of the transfer: mark_failed, and the guard drops. *)
WMarkFailed(w) ==
    /\ \/ workers[w].pc = "conn_failed_locked"
       \/ workers[w].pc = "result_locked" /\ ~workers[w].res.ok
    /\ LET text == IF workers[w].pc = "conn_failed_locked" THEN ConnectFailed
                   ELSE FailureText(workers[w].res)
       IN  tasks' = mark_failed(tasks, workers[w].task_id, text)
    /\ last' = Call("mark_failed", workers[w].task_id, HasTask(tasks, workers[w].task_id))
    /\ queueLock' = Free
    /\ workers' = [workers EXCEPT ![w].pc = "done"]
    /\ UNCHANGED <<next_id, issued, clock, rsLock, remote_state, localDirs, eventLoop, uiPc, xVars, connVars, timerVars, sh, lk>>

(* Ok(_) of the transfer: mark_completed.  A first run then queues the     *)
(* refresh and drops the guard; a retried upload goes on to read the       *)
(* remote state with the queue guard still alive.                          *)
WMarkCompleted(w) ==
    /\ workers[w].pc = "result_locked" /\ workers[w].res.ok
    /\ tasks' = mark_completed(tasks, workers[w].task_id)
    /\ last' = Call("mark_completed", workers[w].task_id, HasTask(tasks, workers[w].task_id))
    /\ IF workers[w].retry /\ workers[w].direction = "Upload"
       THEN /\ workers' = [workers EXCEPT ![w].pc = "read_remote_path"]
            /\ UNCHANGED <<queueLock, eventLoop>>
       ELSE /\ workers' = [workers EXCEPT ![w].pc = "done"]
            /\ queueLock' = Free
            /\ eventLoop' = Append(eventLoop,
                   IF workers[w].direction = "Upload"
                   THEN Closure("refresh_remote", None, 0, workers[w].rp, w)
                   ELSE Closure("refresh_local", None, 0, "", w))
    /\ UNCHANGED <<next_id, issued, clock, rsLock, remote_state, localDirs, uiPc, xVars, connVars, timerVars, sh, lk>>

(* rs.lock().unwrap().current_path.clone() of the retried upload, then the *)
(* refresh is queued and both guards drop.                                 *)
WReadRemotePath(w) ==
    /\ workers[w].pc = "read_remote_path"
    /\ rsLock = Free
    /\ eventLoop' = Append(eventLoop,
           Closure("refresh_remote", None, 0, remote_state.current_path, w))
    /\ queueLock' = Free
    /\ workers' = [workers EXCEPT ![w].pc = "done"]
    /\ last' = NoCall
    /\ UNCHANGED <<tasks, next_id, issued, clock, rsLock, remote_state, localDirs, uiPc, xVars, connVars, timerVars, sh, lk>>

WorkerStep ==
    \E w \in 1..Len(workers) :
        \/ WConnect(w)
        \/ WStep(w)
        \/ WLock(w)
        \/ WMarkFailed(w)
        \/ WMarkCompleted(w)
        \/ WReadRemotePath(w)

Next ==
    \/ UploadSelected
    \/ DownloadSelected
    \/ ClearCompletedTransfers
    \/ RetryTransfer
    \/ RemoteDisconnect
    \/ RemoteConnect
    \/ RemoteRefresh
    \/ RunClosure
    \/ RefreshRemoteDone
    \/ WorkerStep

Spec == Init /\ [][Next]_vars

----------------------------------------------------------------------------
(* Properties of the queue (QSpec). *)

\* C1: every id returned by enqueue is strictly greater than every id
\* returned by an earlier enqueue, whatever calls were made in between,
\* clear_completed included.
C1_IdsStrictlyIncrease ==
    \A i, j \in 1..Len(issued) : i < j => issued[i] < issued[j]

\* An id is handed out after clear_completed has removed an earlier task.
C1_Witness ==
    /\ last.op = "enqueue"
    /\ Len(issued) >= 2
    /\ Len(tasks) < Len(issued)

\* C2: retry(id) returns true exactly when a task with that id exists and is
\* Failed; then that task becomes Pending with progress 0 and no start
\* timestamp; otherwise it returns false and the queue is unchanged.
C2_RetryContract ==
    [][last'.op = "retry" =>
        LET id == last'.id
        IN  IF HasTask(tasks, id) /\ TaskOf(tasks, id).status.kind = "Failed"
            THEN /\ last'.ok
                 /\ HasTask(tasks', id)
                 /\ TaskOf(tasks', id).status = Pending
                 /\ TaskOf(tasks', id).progress = 0
                 /\ TaskOf(tasks', id).started_at = None
            ELSE /\ ~last'.ok
                 /\ tasks' = tasks
                 /\ next_id' = next_id]_vars

\* retry has returned true on a task that had failed part-way, after its
\* first progress update.
C2_Witness ==
    /\ last = Call("retry", 0, TRUE)
    /\ HasTask(tasks, 0)
    /\ TaskOf(tasks, 0).status = Pending
    /\ Len(tasks) = 2
    /\ tasks[2].status.kind = "Failed"
    /\ tasks[2].started_at # None

----------------------------------------------------------------------------
(* Properties of one transfer call (XSpec). *)

Tries(n, p) == {i \in 1..Len(xlog) : xlog[i].t = "try" /\ xlog[i].n = n /\ xlog[i].p = p}
Rets(n, v, p) == {i \in 1..Len(xlog) : xlog[i].t = "ret" /\ xlog[i].n = n /\ xlog[i].v = v /\ xlog[i].p = p}
Returned == xres.state = "returned"
FileCall == IsFileOp(xcall.op)

\* C8: upload and download attempt the command-based transport first, the
\* native transport only after the command-based attempt of the same call
\* has failed, each at most once, and the call succeeds exactly when one of
\* the two attempts succeeds.
C8_DualTransportOrder ==
    /\ \A p \in {xlog[i].p : i \in 1..Len(xlog)} :
         /\ Cardinality(Tries("scp", p)) <= 1
         /\ Cardinality(Tries("sftp", p)) <= 1
         /\ \A i \in Tries("sftp", p) : \E j \in Rets("scp", 0, p) : j < i
    /\ FileCall =>
         /\ xlog # <<>> => xlog[1] = Try("scp", <<>>)
         /\ Returned =>
              (xres.res.ok <=> (Rets("scp", 1, <<>>) \cup Rets("sftp", 1, <<>>)) # {})

\* A call has returned Ok after its command-based attempt failed and its
\* native attempt succeeded.
C8_Witness ==
    /\ FileCall /\ Returned /\ xres.res.ok
    /\ Rets("scp", 0, <<>>) # {}
    /\ Rets("sftp", 1, <<>>) # {}

(* The native transport is healthy: the session is authenticated and no    *)
(* step of the native copy fails.                                          *)
NativeHealthy == xcall.mode = "LibSsh2" /\ xcall.node.sftp = "ok"

\* C9: when the command-based transport fails, for whatever reason, and the
\* native transport is healthy, upload and download return success.
C9_FallbackSucceeds ==
    (FileCall /\ Returned /\ xcall.node.scp # "ok" /\ NativeHealthy) => xres.res.ok

\* A download has returned after scp failed on creating the local directory
\* and the healthy native transport took over.
C9_Witness ==
    /\ xcall.op = "download" /\ Returned
    /\ xcall.node.scp = "mkdir_fail" /\ NativeHealthy
    /\ Rets("scp", 0, <<>>) # {}
    /\ xres.res.ok

----------------------------------------------------------------------------
(* Properties of the application (Spec). *)

Active(t) == t.status.kind \in {"Pending", "InProgress"}
Running(w) == workers[w].pc # "done"
RunningFor(id) == {w \in 1..Len(workers) : workers[w].task_id = id /\ Running(w)}
LastRunOf(w) == \A v \in (w + 1)..Len(workers) : workers[v].task_id # workers[w].task_id

\* C3: once a task is Completed, no queue operation other than
\* clear_completed changes it: it stays in the queue, Completed, with
\* progress 1.0.
C3_CompletedIsTerminal ==
    [][\A i \in 1..Len(tasks) :
          (tasks[i].status = Completed /\ last'.op # "clear_completed") =>
              /\ HasTask(tasks', tasks[i].id)
              /\ TaskOf(tasks', tasks[i].id).status = Completed
              /\ TaskOf(tasks', tasks[i].id).progress = One]_vars

\* C4: within one run of a task, from its enqueue or its last successful
\* retry until it becomes Completed or Failed, the progress stored on the
\* task never decreases.
C4_ProgressNeverDecreases ==
    [][\A i \in 1..Len(tasks) :
          (/\ Active(tasks[i])
           /\ RunningFor(tasks[i].id) # {}
           /\ last'.op # "retry"
           /\ HasTask(tasks', tasks[i].id)
           /\ Active(TaskOf(tasks', tasks[i].id))) =>
              TaskOf(tasks', tasks[i].id).progress >= tasks[i].progress]_vars

\* C5: a task whose worker ended with an error is Failed(reason) and keeps
\* that status for as long as it is in the queue and retry is not called.
C5_FailedStaysFailed ==
    [][\A i \in 1..Len(tasks) :
          (/\ tasks[i].status.kind = "Failed"
           /\ last'.op # "retry"
           /\ HasTask(tasks', tasks[i].id)) =>
              TaskOf(tasks', tasks[i].id).status = tasks[i].status]_vars

\* C6: every retry(id) that returns true is followed by a new worker run for
\* that task, which starts by opening a connection of its own.
C6_RetryStartsWorker ==
    (last.op = "retry" /\ last.ok) =>
        \E w \in 1..Len(workers) :
            /\ workers[w].task_id = last.id
            /\ workers[w].retry
            /\ workers[w].pc = "connect"

(* A worker is blocked: in network or disk I/O or an external process, or  *)
(* waiting for the remote-state lock that another thread holds.            *)
Blocked(w) ==
    \/ workers[w].pc \in {"connect", "transfer"}
    \/ workers[w].pc = "read_remote_path" /\ rsLock # Free

\* C7: a worker holds the queue lock only while it reads or writes task
\* state, never while it performs or waits for I/O, an external process or
\* another lock.
C7_NoBlockingUnderQueueLock ==
    \A w \in 1..Len(workers) : queueLock = Worker(w) => ~Blocked(w)

(* The two attempts of the single-file copy a finished worker made. *)
ScpResult(w) ==
    IF workers[w].op = "upload" THEN upload_via_scp(workers[w].node, <<>>).res
    ELSE download_via_scp(workers[w].node, <<>>).res
NativeResult(w) ==
    IF workers[w].op = "upload" THEN upload_via_sftp(workers[w].node, <<>>, workers[w].mode).res
    ELSE download_via_sftp(workers[w].node, <<>>, workers[w].mode).res
BothFailedIn(w) ==
    /\ IsFileOp(workers[w].op) /\ workers[w].mode # "none"
    /\ ~ScpResult(w).ok /\ ~NativeResult(w).ok

\* C10: when both transports fail in one upload or download, the error
\* returned to the caller and the reason stored by mark_failed on the task
\* both contain the command-based cause and the native cause.
C10_ReasonNamesBothCauses ==
    \A w \in 1..Len(workers) :
        (/\ workers[w].pc = "done" /\ LastRunOf(w) /\ BothFailedIn(w)
         /\ HasTask(tasks, workers[w].task_id)
         /\ TaskOf(tasks, workers[w].task_id).status.kind = "Failed") =>
            /\ Display(ScpResult(w)) \subseteq Chain(workers[w].res)
            /\ Display(NativeResult(w)) \subseteq Chain(workers[w].res)
            /\ Display(ScpResult(w)) \subseteq TaskOf(tasks, workers[w].task_id).status.reason
            /\ Display(NativeResult(w)) \subseteq TaskOf(tasks, workers[w].task_id).status.reason

----------------------------------------------------------------------------
(* Properties of directory transfers and of the progress sink (XSpec). *)

\* C19: in upload_dir, at every level of the tree, the remote
\* create-directory operation for a directory is issued strictly before
\* anything is done for a child of that directory, the child's copy included.
C19_MkdirBeforeChildren ==
    xcall.op = "upload_dir" =>
        \A j \in 1..Len(xlog) : \A k \in 0..(Len(xlog[j].p) - 1) :
            \E i \in 1..(j - 1) : xlog[i] = Io("remote_mkdir", SubSeq(xlog[j].p, 1, k))

\* An upload_dir has returned after copying a file two levels below the
\* root, both directories having been created before.
C19_Witness ==
    /\ xcall.op = "upload_dir" /\ Returned /\ xres.res.ok
    /\ \E j \in 1..Len(xlog) : xlog[j].t = "try" /\ Len(xlog[j].p) = 2

(* Every file of the tree delivers as many chunks as the size found at the *)
(* start of its copy.                                                      *)
RECURSIVE ReadsMatch(_)
ReadsMatch(node) ==
    IF node.is_dir
    THEN \A i \in 1..Len(node.kids) : ReadsMatch(node.kids[i])
    ELSE node.read = node.size

\* C20: every value passed to the progress sink by upload, download,
\* upload_dir and download_dir lies in [0,1], provided the chunks read sum
\* to the size determined at the start of the copy.
C20_ProgressInUnitInterval ==
    ReadsMatch(xcall.node) =>
        \A i \in 1..Len(xlog) : xlog[i].t = "cb" => (0 <= xlog[i].v /\ xlog[i].v <= One)

\* The native copy of the large file has reported its first chunk, a value
\* strictly inside the interval, and the call has returned.
C20_Witness ==
    /\ Returned /\ ReadsMatch(xcall.node) /\ xcall.node.size = BigFile
    /\ \E i \in 1..Len(xlog) : xlog[i] = Cb(Frac(1, BigFile))

----------------------------------------------------------------------------
(* Properties of one connect (CSpec). *)

CReturned == cres.state = "returned"
Steps(n) == {i \in 1..Len(csteps) : csteps[i].n = n}
NativeAttempts ==
    Steps("userauth_password") \cup Steps("userauth_pubkey_file") \cup Steps("userauth_agent")
Probed == Steps("perform_native_ssh_check")
ProbeSucceeded == \E i \in Steps("ssh exit 0") : csteps[i].ok
HandshakeDone == \E i \in Steps("handshake") : csteps[i].ok
(* A native method succeeded and the session reports itself authenticated. *)
SessionAuthenticated ==
    /\ \E i \in NativeAttempts : csteps[i].ok
    /\ ccall.env.authenticated
(* The error of the native authentication, read off the configuration. *)
NativeError ==
    IF \E i \in NativeAttempts : csteps[i].ok
    THEN <<{"authentication did not pass"}>>
    ELSE IF ccall.cfg.auth_type = "password"
    THEN (IF ccall.cfg.password = <<>> THEN <<{"password is empty"}>>
          ELSE <<{"ssh2: password rejected"}>>)
    ELSE IF ccall.cfg.auth_type = "key" THEN <<{"all key authentication failed"}>>
    ELSE <<{"unsupported auth type"}>>

\* C11: whenever native authentication does not produce an authenticated
\* session, for whatever reason, connect has invoked the external probe
\* exactly once by the time it returns.
C11_ProbeOnceOnAuthFailure ==
    (CReturned /\ HandshakeDone /\ ~SessionAuthenticated) => Cardinality(Probed) = 1

\* C12: after a native authentication failure connect returns a handle
\* tagged NativeSsh exactly when the external probe exits successfully, and
\* when the probe fails the error returned is the native authentication
\* error, not the probe's.
C12_FallbackResult ==
    (CReturned /\ HandshakeDone /\ ~SessionAuthenticated) =>
        /\ (cres.res.ok /\ cres.res.auth_mode = "NativeSsh") <=> ProbeSucceeded
        /\ (Probed # {} /\ ~ProbeSucceeded) => (~cres.res.ok /\ cres.res.err = NativeError)

\* The server rejected the password, the external ssh exited with an error,
\* and connect has returned.
C12_Witness ==
    /\ CReturned /\ ~cres.res.ok
    /\ \E i \in Steps("userauth_password") : ~csteps[i].ok
    /\ \E i \in Steps("ssh exit 0") : ~csteps[i].ok
    /\ ccall.env.probe = "exit_nonzero"

\* C13: when the TCP connection or the SSH handshake fails, connect returns
\* an error without attempting any authentication method and without
\* invoking the external probe.
C13_NetworkFailureIsTerminal ==
    (\E i \in Steps("tcp") \cup Steps("handshake") : ~csteps[i].ok) =>
        /\ NativeAttempts = {}
        /\ Probed = {} /\ Steps("ssh -V") = {} /\ Steps("ssh exit 0") = {}
        /\ CReturned => ~cres.res.ok

\* The handshake failed and connect has returned.
C13_Witness ==
    /\ CReturned /\ ~cres.res.ok
    /\ \E i \in Steps("handshake") : ~csteps[i].ok

\* C14: when a native method succeeds and the session reports itself
\* authenticated, connect returns a handle tagged LibSsh2 and the external
\* probe is never invoked; a LibSsh2 handle is returned in no other case.
C14_NativeHandle ==
    CReturned =>
        /\ SessionAuthenticated <=> (cres.res.ok /\ cres.res.auth_mode = "LibSsh2")
        /\ SessionAuthenticated => Probed = {}

\* A key file of the directory authenticated and connect has returned the
\* LibSsh2 handle.
C14_Witness ==
    /\ CReturned /\ cres.res.ok /\ cres.res.auth_mode = "LibSsh2"
    /\ \E i \in Steps("userauth_pubkey_file") : csteps[i].ok /\ csteps[i].arg[1] = "~/.ssh"

IsKeyCredential == ccall.cfg.auth_type = "key"
IsDirAttempt(st) == st.n = "userauth_pubkey_file" /\ st.arg[1] = "~/.ssh"
(* 1: the explicit key file, 2: the agent, 3: a file of the key directory *)
Rank(st) ==
    IF st.n = "userauth_agent" THEN 2
    ELSE IF IsDirAttempt(st) THEN 3
    ELSE 1
DirAttemptNames ==
    LET d == SelectSeq(csteps, IsDirAttempt)
    IN  [i \in 1..Len(d) |-> Tail(d[i].arg)]
ListingNames == [i \in 1..Len(ccall.env.entries) |-> ccall.env.entries[i].name]

RECURSIVE IsSubseq(_, _)
IsSubseq(a, b) ==
    IF a = <<>> THEN TRUE
    ELSE IF b = <<>> THEN FALSE
    ELSE IF Head(a) = Head(b) THEN IsSubseq(Tail(a), Tail(b))
    ELSE IsSubseq(a, Tail(b))

NotAKey(name) ==
    \/ name[Len(name)] = ".pub"
    \/ name[1] = "known_hosts"
    \/ name = <<"config">>
    \/ name = <<"authorized_keys">>
NeverProbesNonKeys ==
    \A i \in Steps("userauth_pubkey_file") : IsDirAttempt(csteps[i]) => ~NotAKey(Tail(csteps[i].arg))
(* No explicit key, no reachable agent, a key directory of non-keys only. *)
OnlyNonKeys ==
    /\ IsKeyCredential /\ ~is_set(ccall.cfg.key_path) /\ ~ccall.env.agent_ok
    /\ ccall.env.home = "ok"
    /\ \A i \in 1..Len(ccall.env.entries) :
          ~ccall.env.entries[i].is_dir /\ NotAKey(ccall.env.entries[i].name)

\* C16 (as stated): the key-directory probe never attempts a file whose
\* name ends in .pub, starts with known_hosts, or is config or
\* authorized_keys; with no explicit key, no reachable agent and a key
\* directory of such files only, no key file is attempted and connect fails
\* with an authentication error.
C16_FilteredProbeFails ==
    /\ NeverProbesNonKeys
    /\ (CReturned /\ HandshakeDone /\ OnlyNonKeys) =>
          /\ Steps("userauth_pubkey_file") = {}
          /\ ~cres.res.ok /\ cres.res.err = <<{"all key authentication failed"}>>

\* C16 (amended): as above, but connect fails with the authentication
\* error only when the external probe fails too; when the probe succeeds
\* connect returns a handle tagged NativeSsh.
C16_FilteredProbe ==
    /\ NeverProbesNonKeys
    /\ (CReturned /\ HandshakeDone /\ OnlyNonKeys) =>
          /\ Steps("userauth_pubkey_file") = {}
          /\ Cardinality(Probed) = 1
          /\ ProbeSucceeded => (cres.res.ok /\ cres.res.auth_mode = "NativeSsh")
          /\ ~ProbeSucceeded =>
                (~cres.res.ok /\ cres.res.err = <<{"all key authentication failed"}>>)

\* The directory holds id_rsa.pub and known_hosts.old, the probe failed and
\* connect has returned the authentication error.
C16_Witness ==
    /\ CReturned /\ HandshakeDone /\ OnlyNonKeys
    /\ ListingNames = <<<<"id_rsa", ".pub">>, <<"known_hosts", ".old">>>>
    /\ ~ProbeSucceeded /\ ~cres.res.ok

IsPasswordCredential == ccall.cfg.auth_type = "password"

\* C17: for a password credential at most one native password
\* attempt is made per connect, and when the secret is empty (absent or the
\* empty string) no native attempt is made and connect ends with an
\* authentication error.
C17_EmptyPasswordFails ==
    IsPasswordCredential =>
        /\ Cardinality(NativeAttempts) <= 1
        /\ (CReturned /\ HandshakeDone /\ ccall.cfg.password \in {<<>>, <<"">>}) =>
              /\ NativeAttempts = {}
              /\ ~cres.res.ok /\ cres.res.err = <<{"password is empty"}>>

(* The steps of the connection procedure that the transcript reports with  *)
(* their outcome: the TCP connection, the handshake, every native attempt, *)
(* the session's final state and the external probe.                       *)
Reported(st) ==
    st.n \in {"tcp", "handshake", "userauth_password", "userauth_pubkey_file",
              "userauth_agent", "authenticated", "perform_native_ssh_check"}
(* The line that reports step st with its outcome. *)
ReportOf(st) ==
    IF st.n = "tcp" THEN (IF st.ok THEN "tcp ok" ELSE "tcp failed")
    ELSE IF st.n = "handshake" THEN (IF st.ok THEN "handshake ok" ELSE "handshake failed")
    ELSE IF st.n = "userauth_password" THEN (IF st.ok THEN "password ok" ELSE "password failed")
    ELSE IF st.n = "userauth_agent" THEN (IF st.ok THEN "agent ok" ELSE "agent failed")
    ELSE IF st.n = "authenticated"
    THEN (IF st.ok THEN "final state: connected" ELSE "session not authenticated")
    ELSE IF st.n = "perform_native_ssh_check"
    THEN (IF st.ok THEN "native ssh ok" ELSE "native ssh failed")
    ELSE IF IsDirAttempt(st) THEN (IF st.ok THEN "key file ok" ELSE "key file mismatch")
    ELSE (IF st.ok THEN "explicit key ok" ELSE "explicit key failed")
Reports(line, st) ==
    /\ line.n = ReportOf(st)
    /\ st.n = "userauth_pubkey_file" =>
          line.arg = (IF IsDirAttempt(st) THEN Tail(st.arg) ELSE st.arg)

(* Every step of steps is reported by a line of lines, in the same order. *)
RECURSIVE Covered(_, _)
Covered(steps, lines) ==
    IF steps = <<>> THEN TRUE
    ELSE IF lines = <<>> THEN FALSE
    ELSE IF Reports(Head(lines), Head(steps)) THEN Covered(Tail(steps), Tail(lines))
    ELSE Covered(steps, Tail(lines))

IsPrefix(a, b) == Len(a) <= Len(b) /\ SubSeq(b, 1, Len(a)) = a

\* C18: connect_with_log returns its transcript on every outcome; the
\* transcript only ever grows at its end, and when connect returns it holds,
\* in the order of execution, one line for every step of the procedure that
\* was executed, with that step's outcome.
C18_TranscriptComplete ==
    /\ [](CReturned =>
            /\ cres.logs = logs /\ logs # <<>>
            /\ Covered(SelectSeq(csteps, Reported), logs))
    /\ [][IsPrefix(logs, logs')]_vars

\* The explicit key, the agent and a key file of the directory all failed,
\* the probe succeeded, and connect has returned handle and transcript.
C18_Witness ==
    /\ CReturned /\ cres.res.ok /\ cres.res.auth_mode = "NativeSsh"
    /\ Cardinality(NativeAttempts) = 3
    /\ Len(cres.logs) > Len(csteps)

----------------------------------------------------------------------------
(* The progress contract of a single-file copy (XSpec). *)

IsCb(ev) == ev.t = "cb"
SinkValues == LET c == SelectSeq(xlog, IsCb) IN [i \in 1..Len(c) |-> c[i].v]

\* C21: for every successful upload or download of one file the progress
\* sink is invoked at least twice, first with 0.0 and last with 1.0,
\* whichever transport completes the copy.
C21_ProgressBoundaries ==
    (FileCall /\ Returned /\ xres.res.ok) =>
        /\ Len(SinkValues) >= 2
        /\ SinkValues[1] = 0
        /\ SinkValues[Len(SinkValues)] = One

\* An empty file has been copied by the native transport after the
\* command-based one failed: only the boundary values were reported.
C21_Witness ==
    /\ FileCall /\ Returned /\ xres.res.ok
    /\ xcall.node.size = 0 /\ Rets("sftp", 1, <<>>) # {}
    /\ SinkValues = <<0, One>>

----------------------------------------------------------------------------
(* The contracts of the queue operations (QSpec).  last' names the call a  *)
(* step makes, with its arguments and its return value.                    *)

(* Every task of q but the one at index i is the same in r. *)
OthersUnchanged(q, r, i) ==
    /\ Len(r) = Len(q)
    /\ \A j \in 1..Len(q) : j # i => r[j] = q[j]
(* Task u is task t but for its status, progress and start timestamp. *)
SameTransfer(t, u) ==
    /\ u.id = t.id /\ u.direction = t.direction /\ u.size = t.size
    /\ u.local_path = t.local_path /\ u.remote_path = t.remote_path
    /\ u.file_name = t.file_name

\* C22: enqueue appends exactly one task at the end of the queue, with the
\* returned id, status Pending, progress 0 and no start timestamp, and
\* leaves the tasks already queued unchanged and in the same order.
C22_EnqueueAppendsPending ==
    [][last'.op = "enqueue" =>
        /\ Len(tasks') = Len(tasks) + 1
        /\ SubSeq(tasks', 1, Len(tasks)) = tasks
        /\ tasks'[Len(tasks')].id = last'.id
        /\ tasks'[Len(tasks')].status = Pending
        /\ tasks'[Len(tasks')].progress = 0
        /\ tasks'[Len(tasks')].started_at = None]_vars

\* The second task has been enqueued behind a first one that is under way.
C22_Witness ==
    /\ last.op = "enqueue" /\ Len(tasks) = 2
    /\ tasks[1].status = InProgress /\ tasks[1].progress = One \div 2
    /\ tasks[2].id = last.id /\ tasks[2].status = Pending

\* C23: update_progress(id, f) on an existing task sets its status to
\* InProgress and its progress to f, and sets the start timestamp only if
\* the task has none; on an unknown id it changes nothing.
C23_UpdateProgressContract ==
    [][last'.op = "update_progress" =>
        LET id == last'.id
            f == last'.arg[1]
            now == last'.arg[2]
            i == IndexOf(tasks, id)
        IN  IF HasTask(tasks, id)
            THEN /\ OthersUnchanged(tasks, tasks', i)
                 /\ SameTransfer(tasks[i], tasks'[i])
                 /\ tasks'[i].status = InProgress
                 /\ tasks'[i].progress = f
                 /\ tasks'[i].started_at =
                        (IF tasks[i].started_at = None THEN now ELSE tasks[i].started_at)
            ELSE tasks' = tasks]_vars

\* An update made at a later instant has kept the timestamp of the first.
C23_Witness ==
    /\ last.op = "update_progress" /\ last.ok
    /\ last.arg[2] = 1
    /\ TaskOf(tasks, last.id).started_at = 0

\* C24: mark_completed(id) on an existing task sets its progress to 1.0 and
\* its status to Completed, whatever they were; on an unknown id it changes
\* nothing.
C24_MarkCompletedContract ==
    [][last'.op = "mark_completed" =>
        LET id == last'.id
            i == IndexOf(tasks, id)
        IN  IF HasTask(tasks, id)
            THEN /\ OthersUnchanged(tasks, tasks', i)
                 /\ SameTransfer(tasks[i], tasks'[i])
                 /\ tasks'[i].status = Completed
                 /\ tasks'[i].progress = One
                 /\ tasks'[i].started_at = tasks[i].started_at
            ELSE tasks' = tasks]_vars

\* A task that never reported progress has been marked completed.
C24_Witness ==
    /\ last.op = "mark_completed" /\ last.ok
    /\ TaskOf(tasks, last.id).started_at = None
    /\ TaskOf(tasks, last.id).progress = One

\* C25: mark_failed(id, reason) on an existing task sets its status to
\* Failed(reason) and leaves its progress and its start timestamp as they
\* were; on an unknown id it changes nothing.
C25_MarkFailedContract ==
    [][last'.op = "mark_failed" =>
        LET id == last'.id
            i == IndexOf(tasks, id)
        IN  IF HasTask(tasks, id)
            THEN /\ OthersUnchanged(tasks, tasks', i)
                 /\ SameTransfer(tasks[i], tasks'[i])
                 /\ tasks'[i].status = Failed(last'.arg[1])
                 /\ tasks'[i].progress = tasks[i].progress
                 /\ tasks'[i].started_at = tasks[i].started_at
            ELSE tasks' = tasks]_vars

\* A task that was half way has been marked failed.
C25_Witness ==
    /\ last.op = "mark_failed" /\ last.ok
    /\ TaskOf(tasks, last.id).status.kind = "Failed"
    /\ TaskOf(tasks, last.id).progress = One \div 2
    /\ TaskOf(tasks, last.id).started_at # None

\* C26: clear_completed removes exactly the tasks that are Completed when
\* it is called; every other task stays, unchanged and in the same relative
\* order, and the id counter is not reset.
C26_ClearCompletedContract ==
    [][last'.op = "clear_completed" =>
        /\ \A i \in 1..Len(tasks') : tasks'[i].status # Completed
        /\ IsSubseq(tasks', tasks)
        /\ Len(tasks') = Cardinality({i \in 1..Len(tasks) : tasks[i].status # Completed})
        /\ next_id' = next_id]_vars

\* Of two tasks the first was Completed: clear_completed has left the
\* second, with its id, and the counter where it was.
C26_Witness ==
    /\ last.op = "clear_completed"
    /\ Len(tasks) = 1 /\ tasks[1].id = 1 /\ next_id = 2


(* C27: snapshot() returns all the tasks in insertion order, as a copy no  *)
(* later queue call changes, and the presentation timer has released the   *)
(* queue's lock when it renders the copy.                                  *)
C27_SnapshotIndependent ==
    /\ [](timerPc = "render" => queueLock # Ui)
    /\ [][/\ (last'.op = "snapshot" => timer_tasks' = tasks')
          /\ (timerPc = "render" /\ timerPc' = "render" => timer_tasks' = timer_tasks)
          /\ (timerPc = "render" /\ timerPc' = "idle"
                 => transfer_tasks' = transfer_entries(timer_tasks))]_vars

\* a worker's call has changed the queue between the snapshot and its rendering
C27_Witness ==
    /\ timerPc = "render" /\ queueLock = Free
    /\ Len(timer_tasks) = 2 /\ timer_tasks[1].id < timer_tasks[2].id
    /\ timer_tasks # tasks
    /\ last.op = "mark_completed" /\ last.ok


(* How a POSIX shell reads a text: the characters it takes, each with      *)
(* whether it takes it literally, and the quoting it ends in.              *)
ShCons(x, r) == [read |-> <<x>> \o r.read, mode |-> r.mode]

RECURSIVE sh_read(_, _)
sh_read(text, mode) ==
    IF text = <<>> THEN [read |-> <<>>, mode |-> mode]
    ELSE LET c == Head(text)
             rest == Tail(text)
         IN  CASE mode = "plain" ->
                    IF c = Quote THEN sh_read(rest, "single")
                    ELSE IF c = DQuote THEN sh_read(rest, "double")
                    ELSE IF c = Backslash THEN sh_read(rest, "escaped")
                    ELSE ShCons([c |-> c, lit |-> c = "a"], sh_read(rest, "plain"))
               [] mode = "escaped" ->
                    ShCons([c |-> c, lit |-> TRUE], sh_read(rest, "plain"))
               [] mode = "single" ->
                    IF c = Quote THEN sh_read(rest, "plain")
                    ELSE ShCons([c |-> c, lit |-> TRUE], sh_read(rest, "single"))
               [] mode = "double" ->
                    IF c = DQuote THEN sh_read(rest, "plain")
                    ELSE IF c = Backslash THEN sh_read(rest, "double_escaped")
                    ELSE ShCons([c |-> c, lit |-> c # "$"], sh_read(rest, "double"))
               [] OTHER ->
                    IF c \in {"$", DQuote, Backslash}
                    THEN ShCons([c |-> c, lit |-> TRUE], sh_read(rest, "double"))
                    ELSE ShCons([c |-> Backslash, lit |-> TRUE],
                                ShCons([c |-> c, lit |-> TRUE], sh_read(rest, "double")))

Literally(s) == [read |-> [i \in 1..Len(s) |-> [c |-> s[i], lit |-> TRUE]], mode |-> "plain"]

(* s with every single quote replaced by the four characters '\'' *)
RECURSIVE QuotesReplaced(_)
QuotesReplaced(s) ==
    IF s = <<>> THEN <<>>
    ELSE LET n == Len(s)
         IN  QuotesReplaced(SubSeq(s, 1, n - 1))
             \o (IF s[n] = "'" THEN <<"'", "\\", "'", "'">> ELSE <<s[n]>>)

HasQuote(s) == \E i \in 1..Len(s) : s[i] = "'"

(* C28: escape_shell_arg(s) is a single quote, s with every single quote   *)
(* replaced by '\'', and a single quote; without single quotes in s it is  *)
(* s between single quotes; and a shell reads the result as the one word   *)
(* s, every character of it literally.                                     *)
C28_EscapeShellArg ==
    (sh.state = "built" /\ sh.op = "escape_shell_arg") =>
        LET s == sh.paths[1]
        IN  /\ sh.text = <<"'">> \o QuotesReplaced(s) \o <<"'">>
            /\ Len(sh.text) = Len(s) + 2 + 3 * Cardinality({i \in 1..Len(s) : s[i] = "'"})
            /\ (~HasQuote(s) => sh.text = <<"'">> \o s \o <<"'">>)
            /\ sh_read(sh.text, "plain") = Literally(s)

\* a path with a single quote and a metacharacter has been escaped
C28_Witness ==
    /\ sh.state = "built" /\ sh.op = "escape_shell_arg"
    /\ sh.paths[1] = <<"a", "'", ";">>
    /\ sh.text = <<"'", "a", "'", "\\", "'", "'", ";", "'">>

EscapedForm(pre, paths) ==
    pre \o escape_shell_arg(paths[1])
        \o (IF Len(paths) > 1 THEN <<" ">> \o escape_shell_arg(paths[2]) ELSE <<>>)

(* C29: every remote path placed into a remote shell command is there in   *)
(* its single-quote-escaped form only.                                     *)
C29_RemotePathsEscaped ==
    (sh.state = "built" /\ sh.op # "escape_shell_arg" /\ sh.text # <<>>) =>
        sh.text = EscapedForm(sh.pre, sh.paths)


Transferring(w) == workers[w].pc \in {"transfer", "result", "result_locked"}

(* C30: every worker, first run or retry run, transfers over a connection  *)
(* it opened itself with connect, never over the browse connection held    *)
(* by the remote browser state, which no worker step changes.              *)
C30_WorkerOwnConnection ==
    /\ [](\A w \in 1..Len(workers) :
            /\ workers[w].uploader # BrowseConnection
            /\ Transferring(w) => workers[w].uploader = OwnConnection(w))
    /\ [][workers' # workers => remote_state'.uploader = remote_state.uploader]_vars

\* a retry run transfers on its own connection, after a first run that had
\* its own, while the browse connection is up
C30_Witness ==
    /\ remote_state.uploader
    /\ \E w \in 1..Len(workers), v \in 1..Len(workers) :
         /\ ~workers[w].retry /\ workers[v].retry
         /\ workers[w].pc = "done" /\ workers[v].pc = "transfer"
         /\ workers[w].uploader = OwnConnection(w) /\ workers[v].uploader = OwnConnection(v)


(* C31: listing and remote command execution go by the handle's AuthMode   *)
(* alone: a LibSsh2 handle uses its session, a NativeSsh handle the        *)
(* system's ssh client, and the mode is the one the handle was created     *)
(* with.                                                                   *)
Dispatched == {"list_dir_sftp", "remote_mkdir", "remote_remove", "remote_rename", "uploader_mkdir"}

C31_DispatchByAuthMode ==
    /\ [](sh.state = "built" /\ sh.op \in Dispatched =>
            /\ sh.uploader.auth_mode = "LibSsh2"   => sh.via = "session"
            /\ sh.uploader.auth_mode = "NativeSsh" => sh.via = "ssh")
    /\ [][sh.state = "input" => sh'.uploader = sh.uploader]_vars

\* a rename on a handle that connect returned after the fallback
C31_Witness ==
    /\ sh.state = "built" /\ sh.op = "remote_rename"
    /\ sh.uploader = Handle("NativeSsh") /\ sh.via = "ssh"
    /\ Len(sh.paths[1]) > 0


AllowedStatusChange(from, to, by) ==
    \/ from = "Pending" /\ to = "InProgress"
    \/ from = "InProgress" /\ to \in {"Completed", "Failed"}
    \/ from = "Failed" /\ to = "Pending" /\ by = "retry"

(* C32: in the application every change of a task's status is Pending to   *)
(* InProgress, InProgress to Completed, InProgress to Failed, or, through  *)
(* retry only, Failed to Pending.                                          *)
C32_StatusTransitions ==
    [][\A i \in 1..Len(tasks) :
         HasTask(tasks', tasks[i].id) =>
            LET from == tasks[i].status.kind
                to   == TaskOf(tasks', tasks[i].id).status.kind
            IN  from # to => AllowedStatusChange(from, to, last'.op)]_vars


(* What the native transport of a single-file call has done so far. *)
NativeLog ==
    IF FileCall /\ Tries("sftp", <<>>) # {}
    THEN LET t == CHOOSE i \in Tries("sftp", <<>>) : TRUE
         IN  SubSeq(xlog, t + 1, Len(xlog))
    ELSE <<>>
IsChunk(ev) == ev.t = "io" /\ ev.n = "chunk"
ChunksUpTo(i) == Cardinality({j \in 1..i : IsChunk(NativeLog[j])})
NativeValues == LET c == SelectSeq(NativeLog, IsCb) IN [i \in 1..Len(c) |-> c[i].v]
NativeOk == Rets("sftp", 1, <<>>) # {}

(* C33: in the native transport the sink gets transferred/total after a    *)
(* written chunk exactly when the total size is above 0; when the chunks   *)
(* sum to the total size the values never decrease and the last one is     *)
(* 1.0; for a total size of 0 only the final 1.0 is emitted.               *)
C33_NativeProgress ==
    /\ \A i \in 1..(Len(NativeLog) - 1) :
         (IsChunk(NativeLog[i]) /\ NativeLog[i + 1].t # "ret") =>
            /\ xcall.node.size > 0 <=> IsCb(NativeLog[i + 1])
            /\ xcall.node.size > 0 =>
                 NativeLog[i + 1].v = (ChunksUpTo(i) * One) \div xcall.node.size
    /\ (NativeOk /\ ReadsMatch(xcall.node)) =>
         /\ \A i \in 1..(Len(NativeValues) - 1) : NativeValues[i] <= NativeValues[i + 1]
         /\ NativeValues[Len(NativeValues)] = One
    /\ (NativeOk /\ xcall.node.size = 0) => NativeValues = <<One>>

\* the native transport has copied a file of two chunks after scp failed
C33_Witness ==
    /\ FileCall /\ Returned /\ NativeOk
    /\ xcall.node.size = 2 /\ xcall.node.read = 2
    /\ NativeValues = <<One \div 2, One, One>>


(* The place in xlog where the copy of a child ends with success, 0 when   *)
(* it has not: for a file the Ret of the transport that copied it; for a   *)
(* sub-directory without entries its listing; for one with entries the     *)
(* value reported after its last entry.                                    *)
IndexIn(S) == IF S = {} THEN 0 ELSE CHOOSE i \in S : TRUE
RECURSIVE Finish(_, _)
Finish(node, q) ==
    IF ~node.is_dir
    THEN IndexIn({i \in 1..Len(xlog) : xlog[i].t = "ret" /\ xlog[i].v = 1 /\ xlog[i].p = q})
    ELSE IF node.kids = <<>>
    THEN IndexIn({i \in 1..Len(xlog) :
                    xlog[i].t = "io" /\ xlog[i].n \in {"read_dir", "list_dir"} /\ xlog[i].p = q})
    ELSE LET k == node.kids[Len(node.kids)]
             f == Finish(k, Append(q, k.name))
         IN  IF f = 0 \/ f >= Len(xlog) THEN 0 ELSE f + 1

(* The directory d at path q reports i/n right after its i-th entry. *)
LevelReports(d, q) ==
    \A i \in 1..Len(d.kids) :
        LET f == Finish(d.kids[i], Append(q, d.kids[i].name))
        IN  (f > 0 /\ f < Len(xlog)) => xlog[f + 1] = Cb((i * One) \div Len(d.kids))

DirCall == xcall.op \in {"upload_dir", "download_dir"}

(* C34: in upload_dir and download_dir a directory with n > 0 entries      *)
(* reports i/n right after its i-th entry, file or whole sub-directory,    *)
(* has finished, n counting the entries of that level only; a directory    *)
(* without entries reports nothing.                                        *)
C34_LevelProgress ==
    DirCall =>
        /\ LevelReports(xcall.node, <<>>)
        /\ \A i \in 1..Len(xcall.node.kids) :
             xcall.node.kids[i].is_dir =>
                LevelReports(xcall.node.kids[i], <<xcall.node.kids[i].name>>)
        /\ xcall.node.kids = <<>> => SinkValues = <<>>

\* a directory of a sub-directory with one file and a file has been copied:
\* 1/1 for the sub-directory's level, then 1/2 and 2/2 for the root's
C34_Witness ==
    /\ DirCall /\ Returned /\ xres.res.ok
    /\ Len(xcall.node.kids) = 2
    /\ xcall.node.kids[1].is_dir /\ Len(xcall.node.kids[1].kids) = 1
    /\ LET f == Finish(xcall.node.kids[1], <<xcall.node.kids[1].name>>)
       IN  f > 1 /\ xlog[f] = Cb(One) /\ xlog[f + 1] = Cb(One \div 2)
    /\ xlog[Len(xlog)] = Cb(One)


(* Worker run w has applied its mark_completed or mark_failed. *)
TerminalApplied(w) == workers[w].pc \in {"read_remote_path", "done"}
(* A retry has started a newer run of the task of run w. *)
RetriedSince(w) == \E v \in (w + 1)..Len(workers) : workers[v].task_id = workers[w].task_id

(* C35: no update_progress deferred by a worker run is applied after that  *)
(* run's mark_completed or mark_failed, nor after a later retry of its     *)
(* task.                                                                   *)
C35_NoStaleProgress ==
    [][(eventLoop # <<>> /\ eventLoop' = Tail(eventLoop)
        /\ Head(eventLoop).kind = "update_progress") =>
          /\ ~TerminalApplied(Head(eventLoop).run)
          /\ ~RetriedSince(Head(eventLoop).run)]_vars


(* C36: at most one worker is running for a task id at any time; a retry   *)
(* worker starts only after the previous worker of the task has ended.     *)
C36_OneWorkerPerTask ==
    \A id \in 0..MaxTasks : Cardinality(RunningFor(id)) <= 1

\* the retry worker of a task is transferring; the first worker has ended
C36_Witness ==
    \E w \in 1..Len(workers), v \in 1..Len(workers) :
        /\ w < v /\ workers[w].task_id = workers[v].task_id
        /\ workers[v].retry /\ workers[v].pc = "transfer"
        /\ ~Running(w)

(* C37: no interleaving of the UI thread and the spawned threads deadlocks *)
(* on the queue lock, the remote-state lock and the local-state lock: a    *)
(* thread that has called lock() on one of them eventually holds it.       *)
UiWaits(l) == LkRunning /\ lk.ui # <<>> /\ Head(lk.ui) = Acq(l)

ThreadWaits(w, l) ==
    LkRunning /\ w <= Len(lk.th) /\ lk.th[w] # <<>> /\ Head(lk.th[w]) = Acq(l)

Holds(who, l) == LkRunning /\ lk.holder[l] = who

C37_LocksAcquired ==
    \A l \in Locks :
        /\ UiWaits(l) ~> Holds(Ui, l)
        /\ \A w \in 1..MaxLockWorkers : ThreadWaits(w, l) ~> Holds(Worker(w), l)

(* The retried upload's thread holds the queue lock and waits for the      *)
(* remote-state lock, which the UI thread holds inside refresh_remote_dir. *)
C37_Witness ==
    /\ LkRunning
    /\ \E w \in 1..MaxLockWorkers :
         /\ ThreadWaits(w, "remote_state")
         /\ lk.holder["queue"] = Worker(w)
    /\ lk.holder["remote_state"] = Ui
    /\ lk.ui = Tail(refresh_remote_dir)

(* C38: a retried task is re-run with the transfer kind of its first run:  *)
(* every retry thread calls the operation (upload, upload_dir, download or *)
(* download_dir) that the task's first thread was spawned with.            *)
FirstRun(w) == {v \in 1..Len(workers) : ~workers[v].retry /\ workers[v].task_id = workers[w].task_id}

C38_RetrySameKind ==
    \A w \in 1..Len(workers) :
        workers[w].retry => \A v \in FirstRun(w) : workers[w].op = workers[v].op

(* What the copy of entry e at path q does on its own. *)
ChildOut(e, q) ==
    IF xcall.op = "upload_dir"
    THEN IF e.is_dir THEN upload_dir_recursive(e, q, xcall.mode) ELSE upload(e, q, xcall.mode)
    ELSE IF e.is_dir THEN download_dir_recursive(e, q, xcall.mode) ELSE download(e, q, xcall.mode)

Under(q, p) == Len(p) >= Len(q) /\ SubSeq(p, 1, Len(q)) = q
Attempted(q) == \E i \in 1..Len(xlog) : Under(q, xlog[i].p)
EntryIndex(name) == CHOOSE i \in 1..4 : NameAt(i) = name
Diverge(p, q) == CHOOSE c \in 1..Len(p) : p[c] # q[c] /\ SubSeq(p, 1, c - 1) = SubSeq(q, 1, c - 1)
Apart(p, q) == \E c \in 1..Len(p) : c <= Len(q) /\ p[c] # q[c]

(* Every step on an entry comes before every step on a later entry of the  *)
(* same directory, whatever lies below the two.                            *)
DepthFirst ==
    \A j \in 1..Len(xlog) : \A k \in (j + 1)..Len(xlog) :
        Apart(xlog[j].p, xlog[k].p) =>
            LET c == Diverge(xlog[j].p, xlog[k].p)
            IN  EntryIndex(xlog[j].p[c]) < EntryIndex(xlog[k].p[c])

(* When entry i of directory d at path q is the first whose copy fails, no *)
(* later entry of d is touched.                                            *)
FirstFailure(d, q, i) ==
    /\ ~ChildOut(d.kids[i], Append(q, d.kids[i].name)).res.ok
    /\ \A h \in 1..(i - 1) : ChildOut(d.kids[h], Append(q, d.kids[h].name)).res.ok

StopsAt(d, q) ==
    \A i \in 1..Len(d.kids) :
        FirstFailure(d, q, i) =>
            \A j \in (i + 1)..Len(d.kids) : ~Attempted(Append(q, d.kids[j].name))

EndsWith(log, ev) ==
    Len(log) >= Len(ev) /\ SubSeq(log, Len(log) - Len(ev) + 1, Len(log)) = ev

(* C39: upload_dir and download_dir traverse depth-first and stop at the   *)
(* first failure: a sub-directory's descendants are all copied before its  *)
(* next sibling starts; when the copy of a child fails no later sibling at *)
(* any level is attempted, the call ends with the failed child's last step *)
(* (no progress value follows) and returns that child's error.             *)
C39_StopAtFirstFailure ==
    DirCall =>
        /\ DepthFirst
        /\ StopsAt(xcall.node, <<>>)
        /\ \A s \in 1..Len(xcall.node.kids) :
             xcall.node.kids[s].is_dir => StopsAt(xcall.node.kids[s], <<xcall.node.kids[s].name>>)
        /\ \A i \in 1..Len(xcall.node.kids) :
             (Returned /\ FirstFailure(xcall.node, <<>>, i)) =>
                 LET c == ChildOut(xcall.node.kids[i], <<xcall.node.kids[i].name>>)
                 IN  xres.res = c.res /\ EndsWith(xlog, c.ev)

\* the only file of the first sub-directory could not be copied by either
\* transport: the call has returned that error and never touched the
\* root's second entry
C39_Witness ==
    /\ DirCall /\ Returned /\ ~xres.res.ok
    /\ Len(xcall.node.kids) = 2
    /\ xcall.node.kids[1].is_dir /\ Len(xcall.node.kids[1].kids) = 1
    /\ Attempted(<<"a", "a">>) /\ ~Attempted(<<"b">>)
    /\ xlog[Len(xlog)].t = "ret" /\ xlog[Len(xlog)].v = 0 /\ xlog[Len(xlog)].p = <<"a", "a">>

(* C40: update_progress, mark_completed, mark_failed and retry called with *)
(* id X leave every task whose id is not X as it was, keep the number and  *)
(* the order of the tasks, and leave the id counter alone.                 *)
TargetedCalls == {"update_progress", "mark_completed", "mark_failed", "retry"}

C40_OnlyTargetChanges ==
    [][last'.op \in TargetedCalls =>
        /\ Len(tasks') = Len(tasks)
        /\ \A j \in 1..Len(tasks) :
             /\ tasks'[j].id = tasks[j].id
             /\ tasks[j].id # last'.id => tasks'[j] = tasks[j]
        /\ next_id' = next_id]_vars

\* retry has reset one failed task while another failed task stays failed
C40_Witness ==
    /\ last.op = "retry" /\ last.ok
    /\ Len(tasks) = 2
    /\ \E j \in 1..2 : tasks[j].id # last.id /\ tasks[j].status.kind = "Failed"
    /\ TaskOf(tasks, last.id).status = Pending

====
